---- MODULE Spec2Model ----
(***************************************************************************)
(* Graph hierarchy of ReGraph: a skeleton graph whose nodes are graph ids  *)
(* and whose edges are typings ("homomorphism") and relations              *)
(* ("binaryRelation"), plus the data nodes of every graph (labelled by the *)
(* graph id) with their "edge", "typing" and "relation" relationships.     *)
(* The operations are those of regraph/neo4j/hierarchies.py and            *)
(* regraph/neo4j/hierarchy.py, and the rewriting pipeline of               *)
(* regraph/hierarchies.py.                                                 *)
(*                                                                         *)
(* Every method is an operator from a hierarchy value H (a record of the   *)
(* store) and the arguments to a record [h |-> the store afterwards,       *)
(* err |-> the exception raised or "none"]; the actions apply them to the  *)
(* variables.                                                              *)
(***************************************************************************)
EXTENDS Integers, FiniteSets, Sequences, TLC

\* ---- bounds -------------------------------------------------------------
MaxSteps == 6
GraphSteps == 3
RelSteps == 4
RewriteSteps == 4
PathSteps == 6
CopySteps == 4
AncSteps == 7
SetupSteps == 3
StageSteps == 8
CheckSteps == 6
StrictSteps == 6
IdentitySteps == 5
CloneSteps == 5
DeleteSteps == 6
JsonSteps == 5
WalkSteps == 9
EqSteps == 5

GraphIds == {"g1", "g2", "g3"}
GraphOrder == <<"g1", "g2", "g3">>

\* the ids the store has room for, in the order of the listings: a fourth
\* graph is only made where two paths of the same length have to meet
StoreOrder == GraphOrder \o <<"g4">>
StoreIds == {StoreOrder[i] : i \in DOMAIN StoreOrder}
NodeIds == {"a", "b"}
FreshIds == <<"c", "c1">>
AllNodeIds == NodeIds \cup {FreshIds[i] : i \in DOMAIN FreshIds}
AttrVals == {"p", "q"}

\* labels given to the constructor (defaults)
TypingLabel == "homomorphism"
RelationLabel == "binaryRelation"
GraphTypingLabel == "typing"

NodeLists == {{}, {"a"}, {"a", "b"}}
EdgeLists == {{}, {<<"a", "b">>}}
Mappings == UNION {[D -> NodeIds] : D \in SUBSET NodeIds}
Relations == {{}, {<<"a", "a">>}, {<<"a", "b">>}, {<<"a", "a">>, <<"b", "b">>}}
CheckValues == {TRUE}

VARIABLES
    graphs,     \* ids of the skeleton nodes labelled "graph"
    gattrs,     \* attributes of each skeleton node
    nodes,      \* data nodes carrying the label of each graph id
    edges,      \* "edge" relationships between the data nodes of a graph
    skeleton,   \* skeleton edges <<source, target, label>>
    typing,     \* "typing" relationships <<s, u, t, v>> between data nodes
    relation,   \* "relation" relationships <<l, u, r, v>> between data nodes
    lastOp,     \* the method called last
    err,        \* the exception the last call raised, "none" if it returned
    ret,        \* the value the last query returned
    pc,         \* the stage of rewrite completed last, "idle" between calls
    call,       \* the arguments and the locals of the call in progress
    done,       \* the stages the last call of rewrite went through
    steps       \* number of calls made

vars == <<graphs, gattrs, nodes, edges, skeleton, typing, relation,
          lastOp, err, ret, pc, call, done, steps>>

hier == <<graphs, gattrs, nodes, edges, skeleton, typing, relation>>

\* the store as a value
Cur == [graphs |-> graphs, gattrs |-> gattrs, nodes |-> nodes, edges |-> edges,
        skeleton |-> skeleton, typing |-> typing, relation |-> relation]

Empty == [graphs |-> {}, gattrs |-> [g \in StoreIds |-> "none"],
          nodes |-> [g \in StoreIds |-> {}], edges |-> [g \in StoreIds |-> {}],
          skeleton |-> {}, typing |-> {}, relation |-> {}]

Init ==
    /\ graphs = Empty.graphs
    /\ gattrs = Empty.gattrs
    /\ nodes = Empty.nodes
    /\ edges = Empty.edges
    /\ skeleton = Empty.skeleton
    /\ typing = Empty.typing
    /\ relation = Empty.relation
    /\ lastOp = "init"
    /\ err = "none"
    /\ ret = <<>>
    /\ pc = "idle"
    /\ call = <<>>
    /\ done = <<>>
    /\ steps = 0

Ok(H) == [h |-> H, err |-> "none"]

Raise(H, e) == [h |-> H, err |-> e]

\* F applied to the value of x
With(x, F(_)) == CHOOSE y \in {F(v) : v \in {x}} : TRUE

\* a call of a method: the store and the exception become those of the result
Call(op, r) ==
    /\ pc = "idle"
    /\ UNCHANGED <<pc, call, done>>
    /\ steps' = steps + 1
    /\ lastOp' = op
    /\ \E v \in {r} :
          /\ err' = v.err
          /\ ret' = IF "ret" \in DOMAIN v THEN v.ret ELSE <<>>
          /\ graphs' = v.h.graphs
          /\ gattrs' = v.h.gattrs
          /\ nodes' = v.h.nodes
          /\ edges' = v.h.edges
          /\ skeleton' = v.h.skeleton
          /\ typing' = v.h.typing
          /\ relation' = v.h.relation

\* ---- accessors ------------------------------------------------------------
typings(H) == {<<e[1], e[2]>> : e \in {x \in H.skeleton : x[3] = TypingLabel}}

relations(H) ==
    {<<e[1], e[2]>> : e \in {x \in H.skeleton : x[3] = RelationLabel}}

successors(H, g) == {e[2] : e \in {x \in typings(H) : x[1] = g}}

predecessors(H, g) == {e[1] : e \in {x \in typings(H) : x[2] = g}}

\* the node-level links of L from the nodes of s to the nodes of t
LinksOf(L, s, t) == {l \in L : l[1] = s /\ l[3] = t}

\* the typing of s by t as a set of pairs <<node, type>>
get_typing(H, s, t) == {<<l[2], l[4]>> : l \in LinksOf(H.typing, s, t)}

get_relation(H, s, t) == {<<l[2], l[4]>> : l \in LinksOf(H.relation, s, t)}

Compose(R1, R2) ==
    {<<x[1], y[2]>> : <<x, y>> \in {<<p, q>> \in R1 \X R2 : p[2] = q[1]}}

RECURSIVE GraphClosure(_, _, _)
GraphClosure(H, frontier, seen) ==
    IF frontier \subseteq seen THEN seen
    ELSE GraphClosure(H, UNION {successors(H, g) : g \in frontier \cup seen},
                      frontier \cup seen)

\* the graphs reached from g by one or more typing edges
TypingReach(H, g) == GraphClosure(H, successors(H, g), {})

\* ---- add_graph ------------------------------------------------------------
\* the skeleton node is merged, not created: the nodes and the edges are added
\* to the graph that has the id before the error is raised
add_graph_from_data_merged(H, graph_id, node_list, edge_list, attrs) ==
    LET ns == H.nodes[graph_id] \cup node_list
        H1 == [H EXCEPT !.graphs = @ \cup {graph_id},
                        !.nodes[graph_id] = ns,
                        !.edges[graph_id] = @ \cup
                            {e \in edge_list : e[1] \in ns /\ e[2] \in ns}]
    IN  IF graph_id \in H.graphs
        THEN Raise(H1, "HierarchyError")
        ELSE Ok([H1 EXCEPT !.gattrs[graph_id] = attrs])

add_graph_from_data(H, graph_id, node_list, edge_list, attrs) ==
    IF graph_id \in H.graphs
    THEN Raise(H, "HierarchyError")
    ELSE LET ns == H.nodes[graph_id] \cup node_list
         IN  Ok([H EXCEPT !.graphs = @ \cup {graph_id},
                          !.gattrs[graph_id] = attrs,
                          !.nodes[graph_id] = ns,
                          !.edges[graph_id] = @ \cup
                              {e \in edge_list : e[1] \in ns /\ e[2] \in ns}])

add_graph(H, graph_id, node_list, edge_list, attrs) ==
    add_graph_from_data(H, graph_id, node_list, edge_list, attrs)

add_empty_graph(H, graph_id, attrs) == add_graph(H, graph_id, {}, {}, attrs)

\* ---- node-level typing paths ----------------------------------------------
DataNodes == {<<g, u>> : g \in StoreIds, u \in AllNodeIds}

\* the data nodes of the store
NodesOf(H) == {n \in DataNodes : n[2] \in H.nodes[n[1]]}

Step(T, S) == {<<l[3], l[4]>> : l \in {x \in T : <<x[1], x[2]>> \in S}}

RECURSIVE Closure(_, _, _)
Closure(T, frontier, seen) ==
    IF frontier \subseteq seen THEN seen
    ELSE Closure(T, Step(T, frontier \cup seen), frontier \cup seen)

\* the data nodes reached from n by one or more links of T
ReachPlus(T, n) == Closure(T, Step(T, {n}), {})

\* the data nodes reached from n by zero or more links of T
ReachStar(T, n) == {n} \cup ReachPlus(T, n)

\* ---- add_typing -----------------------------------------------------------
\* MATCH the two data nodes, MERGE the typing link between them
set_intergraph_edge(H, source, target, u, v) ==
    IF u \in H.nodes[source] /\ v \in H.nodes[target]
    THEN {<<source, u, target, v>>} ELSE {}

NewLinks(H, source, target, mapping) ==
    UNION {set_intergraph_edge(H, source, target, u, mapping[u]) :
           u \in DOMAIN mapping}

\* every node of the source has exactly one image, edges are preserved
check_homomorphism(H, source, target) ==
    /\ \A u \in H.nodes[source] :
          Cardinality({l \in LinksOf(H.typing, source, target) : l[2] = u}) = 1
    /\ \A e \in H.edges[source] :
          \A l1, l2 \in LinksOf(H.typing, source, target) :
             (l1[2] = e[1] /\ l2[2] = e[2])
                => <<l1[4], l2[4]>> \in H.edges[target]

\* every path through a link from source to target agrees with every other
\* path from the same data node to the same graph
check_consistency(H, source, target) ==
    LET from == [p \in NodesOf(H) |-> ReachPlus(H.typing, p)]
    IN  \A l \in LinksOf(H.typing, source, target) :
           LET image == <<l[3], l[4]>>
               after == {image} \cup IF image \in DOMAIN from THEN from[image]
                                     ELSE ReachPlus(H.typing, image)
           IN  \A p \in NodesOf(H) :
                  (<<l[1], l[2]>> \in from[p] \cup {p})
                     => \A q \in after, q2 \in from[p] :
                           (q2[1] = q[1]) => (q2 = q)

\* "MATCH (:source)-[t:typing]-(:target) DELETE t"
DeleteTypingBetween(T, source, target) ==
    {l \in T : ~ \/ (l[1] = source /\ l[3] = target)
                 \/ (l[1] = target /\ l[3] = source)}

\* the consistency of the new links with the other paths is not checked
add_typing_no_consistency(H, source, target, mapping, check) ==
    LET new == NewLinks(H, source, target, mapping)
        H1 == [H EXCEPT !.typing = @ \cup new]
        undone == [H1 EXCEPT !.typing = DeleteTypingBetween(@, source, target)]
    IN  IF check /\ ~ check_homomorphism(H1, source, target)
        THEN Raise(undone, "InvalidHomomorphism")
        ELSE IF source \in H.graphs /\ target \in H.graphs
        THEN Ok([H1 EXCEPT !.skeleton = @ \cup {<<source, target, TypingLabel>>}])
        ELSE Ok(H1)

add_typing(H, source, target, mapping, check) ==
    LET new == NewLinks(H, source, target, mapping)
        H1 == [H EXCEPT !.typing = @ \cup new]
        undone == [H1 EXCEPT !.typing = DeleteTypingBetween(@, source, target)]
    IN  IF check /\ ~ check_homomorphism(H1, source, target)
        THEN Raise(undone, "InvalidHomomorphism")
        ELSE IF check /\ ~ check_consistency(H1, source, target)
        THEN Raise(undone, "InvalidHomomorphism")
        ELSE IF source \in H.graphs /\ target \in H.graphs
        THEN Ok([H1 EXCEPT !.skeleton = @ \cup {<<source, target, TypingLabel>>}])
        ELSE Ok(H1)

\* ---- remove_graph ---------------------------------------------------------
\* "MATCH (n:graph_id) OPTIONAL MATCH (pred)-[:typing]->(n)-[:typing]->(suc)"
ReconnectLinks(H, graph_id) ==
    {<<x[1], x[2], y[3], y[4]>> :
        <<x, y>> \in {<<p, s>> \in H.typing \X H.typing :
                         p[3] = graph_id /\ s[1] = graph_id /\ p[4] = s[2]}}

\* "MATCH (graph_to_rm:graph {id}) OPTIONAL MATCH
\*  (pred)-[:homomorphism]->(n)-[:homomorphism]->(suc)": n is not bound to
\* graph_to_rm, and the new edge gets the label "typing"
ReconnectSkeleton(H, graph_id) ==
    IF graph_id \in H.graphs
    THEN {<<x[1], y[2], GraphTypingLabel>> :
             <<x, y>> \in {<<p, s>> \in H.skeleton \X H.skeleton :
                 p[3] = TypingLabel /\ s[3] = TypingLabel /\ p[2] = s[1]}}
    ELSE {}

\* DETACH DELETE of the data nodes labelled graph_id
ClearLinks(L, graph_id) == {l \in L : l[1] # graph_id /\ l[3] # graph_id}

remove_graph(H, graph_id, reconnect) ==
    LET T1 == IF reconnect THEN H.typing \cup ReconnectLinks(H, graph_id)
              ELSE H.typing
        S1 == IF reconnect THEN H.skeleton \cup ReconnectSkeleton(H, graph_id)
              ELSE H.skeleton
    IN  Ok([H EXCEPT !.nodes[graph_id] = {},
                     !.edges[graph_id] = {},
                     !.typing = ClearLinks(T1, graph_id),
                     !.relation = ClearLinks(@, graph_id),
                     !.skeleton = {e \in S1 : e[1] # graph_id /\ e[2] # graph_id},
                     !.graphs = @ \ {graph_id},
                     !.gattrs[graph_id] = "none"])

\* ---- remove_typing --------------------------------------------------------
remove_typing(H, s, t) ==
    Ok([H EXCEPT !.typing = @ \ LinksOf(@, s, t),
                 !.skeleton = @ \ {<<s, t, TypingLabel>>}])

\* regraph/neo4j/hierarchy.py: the body is "pass"
hierarchy_remove_typing(H, u, v) == Ok(H)

\* ---- add_relation ---------------------------------------------------------
\* one query per pair: "MATCH (u:left {id}), (v:right {id})" and the link
RelationLinks(H, left, right, rel) ==
    {<<left, r[1], right, r[2]>> :
        r \in {x \in rel : x[1] \in H.nodes[left] /\ x[2] \in H.nodes[right]}}

RelationSkeleton(H, left, right) ==
    IF left \in H.graphs /\ right \in H.graphs
    THEN {<<left, right, RelationLabel>>} ELSE {}

add_relation(H, left, right, rel) ==
    Ok([H EXCEPT !.relation = @ \cup RelationLinks(H, left, right, rel),
                 !.skeleton = @ \cup RelationSkeleton(H, left, right)])

\* regraph/neo4j/hierarchy.py: a single query matching all the left keys and
\* all the right values before creating the links
hierarchy_RelationLinks(H, left, right, rel) ==
    IF \A r \in rel : r[1] \in H.nodes[left] /\ r[2] \in H.nodes[right]
    THEN {<<left, r[1], right, r[2]>> : r \in rel}
    ELSE {}

hierarchy_add_relation(H, left, right, rel) ==
    Ok([H EXCEPT !.relation = @ \cup hierarchy_RelationLinks(H, left, right, rel),
                 !.skeleton = @ \cup RelationSkeleton(H, left, right)])

\* ---- remove_relation ------------------------------------------------------
\* "MATCH (:left)-[r:relation]-(:right) DELETE r", then the skeleton edge
\* left -> right
remove_relation(H, left, right) ==
    Ok([H EXCEPT !.relation = {l \in @ :
                     ~ \/ (l[1] = left /\ l[3] = right)
                       \/ (l[1] = right /\ l[3] = left)},
                 !.skeleton = @ \ {<<left, right, RelationLabel>>}])

\* regraph/neo4j/hierarchy.py: the body is "pass"
hierarchy_remove_relation(H, u, v) == Ok(H)

\* ---- rules ----------------------------------------------------------------
\* a rule L <- P -> R over nodes: lhs, p, rhs and the two maps p_lhs, p_rhs
IdRule == [lhs |-> {"a"}, p |-> {"a"}, rhs |-> {"a"},
           p_lhs |-> [x \in {"a"} |-> "a"], p_rhs |-> [x \in {"a"} |-> "a"]]

DelRule == [lhs |-> {"a"}, p |-> {}, rhs |-> {},
            p_lhs |-> [x \in {} |-> "a"], p_rhs |-> [x \in {} |-> "a"]]

AddRule == [lhs |-> {}, p |-> {}, rhs |-> {"c"},
            p_lhs |-> [x \in {} |-> "a"], p_rhs |-> [x \in {} |-> "c"]]

KeepAddRule == [lhs |-> {"a"}, p |-> {"a"}, rhs |-> {"a", "c"},
                p_lhs |-> [x \in {"a"} |-> "a"], p_rhs |-> [x \in {"a"} |-> "a"]]

PairRule == [lhs |-> {"a", "b"}, p |-> {"a", "b"}, rhs |-> {"a", "b"},
             p_lhs |-> [x \in {"a", "b"} |-> x], p_rhs |-> [x \in {"a", "b"} |-> x]]

Rules == {IdRule, DelRule, AddRule, KeepAddRule, PairRule}

\* the lhs node a is cloned into the interface nodes a1 and a2
CloneRule == [lhs |-> {"a"}, p |-> {"a1", "a2"}, rhs |-> {"a1", "a2"},
              p_lhs |-> [x \in {"a1", "a2"} |-> "a"],
              p_rhs |-> [x \in {"a1", "a2"} |-> x]]

removed_nodes(rule) == {l \in rule.lhs : \A q \in rule.p : rule.p_lhs[q] # l}

added_nodes(rule) == {r \in rule.rhs : \A q \in rule.p : rule.p_rhs[q] # r}

cloned_nodes(rule) ==
    {l \in rule.lhs : Cardinality({q \in rule.p : rule.p_lhs[q] = l}) > 1}

merged_nodes(rule) ==
    {r \in rule.rhs : Cardinality({q \in rule.p : rule.p_rhs[q] = r}) > 1}

\* the arguments of rewrite: instance maps nodes of the lhs to node ids, the
\* typings are dicts graph id -> node -> set of nodes
Instances(rule) == UNION {[D -> NodeIds] : D \in SUBSET rule.lhs}

NoTyping == [g \in {} |-> [n \in {} |-> {}]]

PTypings(rule) ==
    {NoTyping} \cup
    {g :> (k :> vs) : g \in GraphIds, k \in {"a"}, vs \in (SUBSET rule.p) \ {{}}}

RhsTypings(rule) ==
    {NoTyping} \cup
    {g :> (n :> {v}) : g \in GraphIds, n \in rule.rhs, v \in NodeIds}

\* the values of a dict given as a set of pairs at key k
Img(R, k) == {x[2] : x \in {y \in R : y[1] = k}}

Id(S) == {<<n, n>> : n \in S}

\* the first exception raised by a sequence of checks
RECURSIVE FirstErr(_)
FirstErr(es) ==
    IF es = <<>> THEN "none"
    ELSE IF Head(es) # "none" THEN Head(es) ELSE FirstErr(Tail(es))

\* ---- ancestors, descendants ------------------------------------------------
SeqOfSet(S) == SelectSeq(StoreOrder, LAMBDA g : g \in S)

Range(seq) == {seq[i] : i \in DOMAIN seq}

Nb(H, g, reverse) ==
    SeqOfSet(IF reverse THEN predecessors(H, g) ELSE successors(H, g))

\* the typing links that lie on a skeleton typing edge
SkeletonLinks(H) == {l \in H.typing : <<l[1], l[3]>> \in typings(H)}

\* the recursion of get_descendants does not end when a cycle is reached
Recurses(H, g) ==
    \E d \in {g} \cup TypingReach(H, g) : d \in TypingReach(H, d)

\* the same for get_ancestors
RecursesBack(H, g) ==
    \E d \in StoreIds : (d = g \/ g \in TypingReach(H, d)) /\ d \in TypingReach(H, d)

\* the dict built from the records <<node, type>> of a query
AsDict(R) == {<<k, CHOOSE v \in Img(R, k) : TRUE>> : k \in {x[1] : x \in R}}

\* d1.update(d2) on dicts of nodes
UpdateMap(d1, d2) == {x \in d1 : x[1] \notin {y[1] : y \in d2}} \cup d2

\* "for anc, anc_typing in other.items()": the entry of every key of other
\* is updated with, or becomes, its composition with typ
Collapse(found, other, typ, backward) ==
    [k \in DOMAIN found \cup DOMAIN other |->
        IF k \in DOMAIN other
        THEN LET composed == IF backward THEN Compose(other[k], typ)
                             ELSE Compose(typ, other[k])
             IN  IF k \in DOMAIN found THEN UpdateMap(found[k], composed)
                 ELSE composed
        ELSE found[k]]

RECURSIVE get_ancestors(_, _)
RECURSIVE AncestorsOver(_, _, _, _)
\* "if pred in ancestors.keys(): ancestors.update(pred_ancestors)"
AncestorsOver(H, graph_id, preds, ancestors) ==
    IF preds = <<>> THEN ancestors
    ELSE LET pred == Head(preds)
             typ == AsDict(get_typing(H, pred, graph_id))
             pred_ancestors == get_ancestors(H, pred)
             a1 == IF pred \in DOMAIN ancestors
                   THEN [k \in DOMAIN ancestors \cup DOMAIN pred_ancestors |->
                            IF k \in DOMAIN pred_ancestors
                            THEN pred_ancestors[k] ELSE ancestors[k]]
                   ELSE [k \in DOMAIN ancestors \cup {pred} |->
                            IF k = pred THEN typ ELSE ancestors[k]]
         IN  AncestorsOver(H, graph_id, Tail(preds),
                           Collapse(a1, pred_ancestors, typ, TRUE))

\* only the typings of the predecessors, without their ancestors
get_ancestors_direct(H, graph_id) ==
    [p \in predecessors(H, graph_id) |-> AsDict(get_typing(H, p, graph_id))]

get_ancestors(H, graph_id) ==
    AncestorsOver(H, graph_id, Nb(H, graph_id, TRUE), <<>>)

RECURSIVE get_descendants(_, _)
RECURSIVE DescendantsOver(_, _, _, _)
\* "if typing in descendants.keys(): descendants[typing].update(mapping)"
DescendantsOver(H, graph_id, sucs, descendants) ==
    IF sucs = <<>> THEN descendants
    ELSE LET suc == Head(sucs)
             mapping == AsDict(get_typing(H, graph_id, suc))
             typing_descendants == get_descendants(H, suc)
             d1 == [k \in DOMAIN descendants \cup {suc} |->
                      IF k = suc
                      THEN IF suc \in DOMAIN descendants
                           THEN UpdateMap(descendants[suc], mapping)
                           ELSE mapping
                      ELSE descendants[k]]
         IN  DescendantsOver(H, graph_id, Tail(sucs),
                             Collapse(d1, typing_descendants, mapping, FALSE))

get_descendants(H, graph_id) ==
    DescendantsOver(H, graph_id, Nb(H, graph_id, FALSE), <<>>)

\* the keys of a dict filled in the order seq
RECURSIVE Keys(_, _)
Keys(seq, seen) ==
    IF seq = <<>> THEN <<>>
    ELSE IF Head(seq) \in seen THEN Keys(Tail(seq), seen)
    ELSE <<Head(seq)>> \o Keys(Tail(seq), seen \cup {Head(seq)})

\* the keys of get_descendants(graph_id) in the order in which the dict gets
\* them: each successor, followed by the keys of its own descendants
RECURSIVE descendants_keys(_, _)
RECURSIVE DescendantKeysOver(_, _, _)
DescendantKeysOver(H, sucs, keys) ==
    IF sucs = <<>> THEN keys
    ELSE DescendantKeysOver(H, Tail(sucs),
             Keys(keys \o <<Head(sucs)>> \o descendants_keys(H, Head(sucs)), {}))

descendants_keys(H, graph_id) ==
    DescendantKeysOver(H, Nb(H, graph_id, FALSE), <<>>)

\* ---- rewrite: checks of the rule, the instance and the typings -------------
\* check_homomorphism(rule.lhs, origin, instance, total=True)
\* a graph with attributes on its nodes and its edges
AttrGraph(ns, es, na, ea) == [nodes |-> ns, edges |-> es, nattrs |-> na, eattrs |-> ea]

\* a graph without attributes
PlainGraph(ns, es) ==
    AttrGraph(ns, es, [n \in ns |-> {}], [e \in es |-> {}])

\* check_homomorphism(source, target, dictionary, total=True): the keys, the
\* values, the totality, then the edges, then the attributes
check_homomorphism_total(source, target, dictionary) ==
    IF ~ (DOMAIN dictionary \subseteq source.nodes) THEN "InvalidHomomorphism"
    ELSE IF \E n \in DOMAIN dictionary : dictionary[n] \notin target.nodes
    THEN "InvalidHomomorphism"
    ELSE IF source.nodes # DOMAIN dictionary THEN "InvalidHomomorphism"
    ELSE IF \E e \in source.edges :
               <<dictionary[e[1]], dictionary[e[2]]>> \notin target.edges
    THEN "InvalidHomomorphism"
    ELSE IF \E n \in source.nodes :
               ~ (source.nattrs[n] \subseteq target.nattrs[dictionary[n]])
    THEN "InvalidHomomorphism"
    ELSE IF \E e \in source.edges :
               ~ (source.eattrs[e] \subseteq
                     target.eattrs[<<dictionary[e[1]], dictionary[e[2]]>>])
    THEN "InvalidHomomorphism"
    ELSE "none"

\* the instance is not checked
instance_check_skipped(lhs, graph, instance) == "none"

\* "try: check_homomorphism(rule.lhs, self.get_graph(origin_id), instance,
\* total=True) except InvalidHomomorphism: raise RewritingError"
instance_check(lhs, graph, instance) ==
    IF check_homomorphism_total(lhs, graph, instance) # "none"
    THEN "RewritingError" ELSE "none"

InstanceValid(H, origin, rule, instance) ==
    instance_check(PlainGraph(rule.lhs, {}),
                   PlainGraph(H.nodes[origin], H.edges[origin]),
                   instance) = "none"

is_monic(f) == \A x, y \in DOMAIN f : (f[x] = f[y]) => (x = y)

\* the instance is only checked to be a homomorphism
InstanceErrNotMono(H, origin, rule, instance) ==
    IF ~ InstanceValid(H, origin, rule, instance) THEN "RewritingError"
    ELSE "none"

InstanceErr(H, origin, rule, instance) ==
    IF ~ InstanceValid(H, origin, rule, instance) THEN "RewritingError"
    ELSE IF ~ is_monic(instance) THEN "RewritingError"
    ELSE "none"

\* "Check p_typing does not retype nodes": graph_to_origin[k] is a KeyError
\* for a node k without a type in the origin
PTypingItems(p_typing) ==
    UNION {UNION {{<<g, k, vv>> : vv \in p_typing[g][k]} :
                    k \in DOMAIN p_typing[g]} : g \in DOMAIN p_typing}

PRetypeErr(H, origin, rule, instance, p_typing) ==
    LET to_origin(i) == Img(get_typing(H, i[1], origin), i[2])
        items == PTypingItems(p_typing)
    IN  IF \E i \in items : to_origin(i) = {} \/ i[3] \notin rule.p
        THEN "KeyError"
        ELSE IF \E i \in items : to_origin(i) # {instance[rule.p_lhs[i[3]]]}
        THEN "RewritingError"
        ELSE "none"

\* "Check composability of p_typing": canonical is False on both branches, so
\* a predecessor outside p_typing always raises; the message needs
\* canonical_clones, which is bound only after a non-empty set of clones
PComposeErrOf(H, p_typing, g) ==
    LET typ == p_typing[g]
    IN  IF \E pred \in predecessors(H, g) : pred \notin DOMAIN p_typing
        THEN IF \E k \in DOMAIN typ : typ[k] # {}
             THEN "RewritingError" ELSE "UnboundLocalError"
        ELSE IF \E suc \in successors(H, g), k \in DOMAIN typ :
                   Img(get_typing(H, g, suc), k) = {}
        THEN "KeyError"
        ELSE IF \E suc \in successors(H, g), k \in DOMAIN typ :
                   \E suc_n \in Img(get_typing(H, g, suc), k) :
                      /\ suc \in DOMAIN p_typing
                      /\ suc_n \in DOMAIN p_typing[suc]
                      /\ ~ (typ[k] \subseteq p_typing[suc][suc_n])
        THEN "RewritingError"
        ELSE "none"

PComposeErr(H, p_typing) ==
    IF \E g \in DOMAIN p_typing : PComposeErrOf(H, p_typing, g) # "none"
    THEN PComposeErrOf(H, p_typing,
            CHOOSE g \in DOMAIN p_typing : PComposeErrOf(H, p_typing, g) # "none")
    ELSE "none"

\* "Autocomplete and check rhs_typing"
TypesBy(dt, graph_ns) == UNION {Img(dt, graph_n) : graph_n \in graph_ns}

AutoErrOf(H, rhs_typing, g, d) ==
    LET typ == rhs_typing[g]
        dt == get_descendants(H, g)[d]
    IN  IF \E rhs_n \in DOMAIN typ :
               (d \in DOMAIN rhs_typing => rhs_n \in DOMAIN rhs_typing[d])
               /\ \E graph_n \in typ[rhs_n] : Img(dt, graph_n) = {}
        THEN "KeyError"
        ELSE IF /\ d \in DOMAIN rhs_typing
                /\ \E rhs_n \in (DOMAIN typ) \cap (DOMAIN rhs_typing[d]) :
                      ~ (TypesBy(dt, typ[rhs_n]) \subseteq rhs_typing[d][rhs_n])
        THEN "RewritingError"
        ELSE "none"

\* the entry of new_rhs_typing for the descendant d that the graph g gives
AutoEntry(H, rhs_typing, g, d) ==
    LET typ == rhs_typing[g]
        dt == get_descendants(H, g)[d]
    IN  IF d \notin DOMAIN rhs_typing
        THEN [rhs_n \in DOMAIN typ |-> TypesBy(dt, typ[rhs_n])]
        ELSE [rhs_n \in (DOMAIN typ) \cup (DOMAIN rhs_typing[d]) |->
                 IF rhs_n \in DOMAIN rhs_typing[d] THEN rhs_typing[d][rhs_n]
                 ELSE TypesBy(dt, typ[rhs_n])]

\* the pairs <<graph_id, descendant>> in the order of the two loops
RECURSIVE AutoPairs(_, _)
AutoPairs(H, gs) ==
    IF gs = <<>> THEN <<>>
    ELSE LET ds == descendants_keys(H, Head(gs))
         IN  [i \in DOMAIN ds |-> <<Head(gs), ds[i]>>] \o AutoPairs(H, Tail(gs))

\* the two loops: rhs is rhs_typing, whose entries are completed in place, new
\* holds the entries of new_rhs_typing for the graphs that rhs_typing lacks,
\* and the first error ends the loops
RECURSIVE AutoLoop(_, _, _, _)
AutoLoop(H, pairs, rhs, new) ==
    IF pairs = <<>> THEN [err |-> "none", rhs |-> rhs, new |-> new]
    ELSE LET g == Head(pairs)[1]
             d == Head(pairs)[2]
             e == AutoErrOf(H, rhs, g, d)
             entry == AutoEntry(H, rhs, g, d)
         IN  IF e # "none" THEN [err |-> e, rhs |-> rhs, new |-> new]
             ELSE IF d \in DOMAIN rhs
             THEN AutoLoop(H, Tail(pairs), [rhs EXCEPT ![d] = entry], new)
             ELSE AutoLoop(H, Tail(pairs), rhs, (d :> entry) @@ new)

AutoRun(H, rhs_typing) ==
    AutoLoop(H, AutoPairs(H, SeqOfSet(DOMAIN rhs_typing)), rhs_typing,
             [g \in {} |-> {}])

AutoErr(H, rhs_typing) ==
    IF \E g \in DOMAIN rhs_typing : Recurses(H, g) THEN "RecursionError"
    ELSE AutoRun(H, rhs_typing).err

\* rhs_typing after "for g, t in new_rhs_typing.items(): rhs_typing[g] = t"
Autocomplete(H, rhs_typing) ==
    LET r == AutoRun(H, rhs_typing)
    IN  [d \in (DOMAIN r.rhs) \cup (DOMAIN r.new) |->
            IF d \in DOMAIN r.rhs THEN r.rhs[d] ELSE r.new[d]]

\* "Check rhs_typing does not retype nodes"
RhsRetypeErr(H, origin, rule, instance, rhs_typing) ==
    LET kept(k) == {q \in rule.p : rule.p_rhs[q] = k}
        types(g, k) == {Img(get_typing(H, origin, g), instance[rule.p_lhs[q]]) :
                           q \in kept(k)}
        items == UNION {{<<g, k>> : k \in DOMAIN rhs_typing[g]} :
                           g \in DOMAIN rhs_typing}
    IN  IF \E i \in items : {} \in types(i[1], i[2]) THEN "KeyError"
        ELSE IF \E i \in items :
                   /\ kept(i[2]) # {}
                   /\ UNION types(i[1], i[2]) # rhs_typing[i[1]][i[2]]
        THEN "RewritingError"
        ELSE "none"

\* "If rewriting is strict, check rhs typing types all new nodes"
\* rewriting that never asks for the types of the added nodes
StrictErrSkipped(H, origin, rule, rhs_typing, strict) == "none"

StrictErr(H, origin, rule, rhs_typing, strict) ==
    IF ~ (strict /\ added_nodes(rule) # {}) THEN "none"
    ELSE IF Recurses(H, origin) THEN "RecursionError"
    ELSE IF \E desc \in TypingReach(H, origin) :
               \/ desc \notin DOMAIN rhs_typing
               \/ \E rhs_n \in added_nodes(rule) :
                     \/ rhs_n \notin DOMAIN rhs_typing[desc]
                     \/ Cardinality(rhs_typing[desc][rhs_n]) # 1
    THEN "RewritingError"
    ELSE "none"

\* the exception of _check_rule_instance_typing, "none" when it returns
check_rule_instance_typing(H, origin, rule, instance, p_typing, rhs_typing, strict) ==
    LET e1 == InstanceErr(H, origin, rule, instance)
        e2 == IF e1 # "none" THEN e1
              ELSE FirstErr(<<PRetypeErr(H, origin, rule, instance, p_typing),
                              PComposeErr(H, p_typing),
                              AutoErr(H, rhs_typing)>>)
    IN  IF e2 # "none" THEN e2
        ELSE LET full == Autocomplete(H, rhs_typing)
             IN  FirstErr(<<RhsRetypeErr(H, origin, rule, instance, full),
                            StrictErr(H, origin, rule, full, strict)>>)

\* ---- rewrite: the two rewrites of the origin -------------------------------
\* the nodes X of the graph g are removed with their edges, their types and
\* their relations; the types that other graphs give to them are left broken
DropNodes(H, g, X) ==
    [H EXCEPT !.nodes[g] = @ \ X,
              !.edges[g] = {e \in @ : e[1] \notin X /\ e[2] \notin X},
              !.typing = {l \in @ : ~ (l[1] = g /\ l[2] \in X)},
              !.relation = {l \in @ : ~ \/ (l[1] = g /\ l[2] \in X)
                                        \/ (l[3] = g /\ l[4] \in X)}]

RemovedInstance(rule, instance) == {instance[l] : l \in removed_nodes(rule)}

\* the clones: each interface node of a cloned lhs node with the node matched
ClonesOf(rule, instance) ==
    {<<q, instance[rule.p_lhs[q]]>> :
        q \in {x \in rule.p : rule.p_lhs[x] \in cloned_nodes(rule)}}

\* the node that the node n of the rewritten graph comes from
Origin(C, n) == IF \E c \in C : c[1] = n
                THEN (CHOOSE c \in C : c[1] = n)[2] ELSE n

\* each cloned node of g is replaced by its clones, named as the interface
\* nodes, with its edges, its types and its relations; the types that other
\* graphs give to it are left broken
CloneNodes(H, g, C) ==
    LET ns == (H.nodes[g] \ {c[2] : c \in C}) \cup {c[1] : c \in C}
    IN  [H EXCEPT
           !.nodes[g] = ns,
           !.edges[g] = {e \in ns \X ns :
                            <<Origin(C, e[1]), Origin(C, e[2])>> \in H.edges[g]},
           !.typing = {l \in @ : ~ (l[1] = g /\ l[2] \in {c[2] : c \in C})}
                      \cup {<<g, c[1], l[3], l[4]>> :
                               <<c, l>> \in {x \in C \X H.typing :
                                   x[2][1] = g /\ x[2][2] = x[1][2]}},
           !.relation = {l \in @ : ~ \/ (l[1] = g /\ l[2] \in {c[2] : c \in C})
                                      \/ (l[3] = g /\ l[4] \in {c[2] : c \in C})}]

\* the origin without the removed nodes and with the clones, and the instance
\* p_g_m of P in it
restrictive_rewrite(H, graph_id, rule, instance) ==
    LET H1 == DropNodes(H, graph_id, RemovedInstance(rule, instance))
        C == ClonesOf(rule, instance)
    IN  [h |-> IF C = {} THEN H1 ELSE CloneNodes(H1, graph_id, C),
         p_g_m |-> [q \in rule.p |->
                      IF rule.p_lhs[q] \in cloned_nodes(rule) THEN q
                      ELSE instance[rule.p_lhs[q]]]]

HasFresh(S) == \E i \in DOMAIN FreshIds : FreshIds[i] \notin S

\* the id given to a new node of a graph with the nodes S
Fresh(S) ==
    FreshIds[CHOOSE i \in DOMAIN FreshIds :
                /\ FreshIds[i] \notin S
                /\ \A j \in 1..(i - 1) : FreshIds[j] \in S]

RECURSIVE AddNodes(_, _, _, _)
AddNodes(H, g, names, made) ==
    IF names = {} THEN [h |-> H, made |-> made]
    ELSE LET n == CHOOSE x \in names : TRUE
             id == Fresh(H.nodes[g])
         IN  AddNodes([H EXCEPT !.nodes[g] = @ \cup {id}], g, names \ {n},
                      made \cup {<<n, id>>})

\* the origin with the added nodes, and the instance rhs_g_prime of R in it
expansive_rewrite(H, graph_id, rule, p_g_m) ==
    LET r == AddNodes(H, graph_id, added_nodes(rule), {})
    IN  [h |-> r.h,
         rhs_g_prime |-> r.made \cup {<<rule.p_rhs[q], p_g_m[q]>> : q \in rule.p}]

\* ---- rewrite: backward propagation ------------------------------------------
RECURSIVE NextLevel(_, _, _, _)
NextLevel(H, reverse, current_level, bfs_result) ==
    IF current_level = <<>> THEN <<>>
    ELSE SelectSeq(Nb(H, Head(current_level), reverse),
                   LAMBDA x : x \notin Range(bfs_result))
         \o NextLevel(H, reverse, Tail(current_level), bfs_result)

RECURSIVE BfsLevels(_, _, _, _)
BfsLevels(H, reverse, current_level, bfs_result) ==
    IF current_level = <<>> THEN bfs_result
    ELSE LET next_level == NextLevel(H, reverse, current_level, bfs_result)
         IN  BfsLevels(H, reverse, next_level, bfs_result \o next_level)

bfs_tree(H, graph, reverse) ==
    BfsLevels(H, reverse, Nb(H, graph, reverse), <<graph>> \o Nb(H, graph, reverse))

\* the nodes of graph_id typed by a removed node are removed
propagate_node_removal(H, origin_id, graph_id, rule, instance, g_m_origin_m) ==
    LET gone == {u \in H.nodes[graph_id] :
                    Img(g_m_origin_m, u) \cap RemovedInstance(rule, instance) # {}}
    IN  [h |-> DropNodes(H, graph_id, gone),
         m |-> {x \in g_m_origin_m : x[1] \notin gone}]

\* the elements of a set of nodes in some order
RECURSIVE SeqOf(_)
SeqOf(S) ==
    IF S = {} THEN <<>>
    ELSE LET x == CHOOSE y \in S : TRUE IN <<x>> \o SeqOf(S \ {x})

\* the node u of graph_id gets the clones qs: u stands for the first and a
\* new node, with the edges and the types of u, for each of the others
RECURSIVE CloneInto(_, _, _, _, _, _, _)
CloneInto(H, graph_id, u, qs, p_origin_m, g_m_g, g_m_origin_m) ==
    IF qs = <<>> THEN [h |-> H, g |-> g_m_g, m |-> g_m_origin_m]
    ELSE LET q == Head(qs)
             first == \A x \in g_m_origin_m : x[1] # u
             n == IF first THEN u ELSE Fresh(H.nodes[graph_id])
             H1 == IF first THEN H
                   ELSE [H EXCEPT
                           !.nodes[graph_id] = @ \cup {n},
                           !.edges[graph_id] = @ \cup
                               {<<IF e[1] = u THEN n ELSE e[1],
                                  IF e[2] = u THEN n ELSE e[2]>> :
                                   e \in {x \in @ : u \in {x[1], x[2]}}},
                           !.typing = @ \cup
                               {<<graph_id, n, l[3], l[4]>> :
                                   l \in {x \in @ : x[1] = graph_id /\ x[2] = u}}]
         IN  CloneInto(H1, graph_id, u, Tail(qs), p_origin_m,
                       g_m_g \cup {<<n, u>>},
                       g_m_origin_m \cup {<<n, p_origin_m[q]>>})

\* the nodes of graph_id typed by a cloned node get the clones that p_typing
\* lists for them, all the clones when it lists none
RECURSIVE CloneEach(_, _, _, _, _, _, _, _, _)
CloneEach(H, graph_id, rule, instance, us, p_origin_m, p_typing, g_m_g, g_m_origin_m) ==
    IF us = <<>> THEN [h |-> H, g |-> g_m_g, m |-> g_m_origin_m]
    ELSE LET u == Head(us)
             all == {c[1] : c \in {x \in ClonesOf(rule, instance) :
                                      x[2] \in Img(g_m_origin_m, u)}}
             qs == IF u \in DOMAIN p_typing THEN p_typing[u] ELSE all
             r == CloneInto(H, graph_id, u, SeqOf(qs), p_origin_m,
                            g_m_g, {x \in g_m_origin_m : x[1] # u})
         IN  CloneEach(r.h, graph_id, rule, instance, Tail(us), p_origin_m,
                       p_typing, r.g, r.m)

propagate_clone(H, origin_id, graph_id, rule, instance, p_origin_m, p_typing, g_m_g, g_m_origin_m) ==
    LET cloned == {c[2] : c \in ClonesOf(rule, instance)}
        us == {u \in H.nodes[graph_id] : Img(g_m_origin_m, u) \cap cloned # {}}
    IN  CloneEach(H, graph_id, rule, instance, SeqOf(us), p_origin_m,
                  p_typing, g_m_g, g_m_origin_m)

\* "for graph_id in self.bfs_tree(origin_id, reverse=True)"
RECURSIVE BackwardLocal(_, _, _, _, _, _, _, _, _)
BackwardLocal(H, origin_id, rule, instance, p_origin_m, p_typing, order, g_m_gs, g_m_origin_ms) ==
    IF order = <<>> THEN [h |-> H, gs |-> g_m_gs, ms |-> g_m_origin_ms]
    ELSE LET graph_id == Head(order)
             graph_p_typing == IF graph_id \in DOMAIN p_typing
                               THEN p_typing[graph_id] ELSE [n \in {} |-> {}]
             origin_typing == get_typing(H, graph_id, origin_id)
             c == IF cloned_nodes(rule) # {}
                  THEN propagate_clone(H, origin_id, graph_id, rule, instance,
                                       p_origin_m, graph_p_typing,
                                       Id(H.nodes[graph_id]), origin_typing)
                  ELSE [h |-> H, g |-> Id(H.nodes[graph_id]), m |-> origin_typing]
             r == IF removed_nodes(rule) # {}
                  THEN propagate_node_removal(c.h, origin_id, graph_id, rule,
                                              instance, c.m)
                  ELSE [h |-> c.h, m |-> c.m]
             g_m_g == {x \in c.g : x[1] \in r.h.nodes[graph_id]}
         IN  With([h |-> r.h, gs |-> (graph_id :> g_m_g) @@ g_m_gs,
                   ms |-> (graph_id :> r.m) @@ g_m_origin_ms],
                  LAMBDA v : BackwardLocal(v.h, origin_id, rule, instance,
                                           p_origin_m, p_typing, Tail(order),
                                           v.gs, v.ms))

\* the map z -> p with p_a . z_p = z_a and p_b . z_p = z_b
get_unique_map_to_pullback(p, p_a, p_b, z_a, z_b) ==
    {<<x[1], value>> : <<x, value>> \in
        {<<x, value>> \in z_a \X p :
            /\ x[2] \in Img(p_a, value)
            /\ Img(z_b, x[1]) \cap Img(p_b, value) # {}}}

\* a dict from a set of pairs
FnOf(R) == [k \in {x[1] : x \in R} |-> CHOOSE v \in Img(R, k) : TRUE]

RECURSIVE RestorePreds(_, _, _, _, _)
RestorePreds(H, target_id, preds, g_m_g, g_m_origin_ms) ==
    IF preds = <<>> THEN Ok(H)
    ELSE LET pred == Head(preds)
             pred_graph == get_unique_map_to_pullback(
                               H.nodes[target_id], g_m_g,
                               g_m_origin_ms[target_id],
                               get_typing(H, pred, target_id),
                               g_m_origin_ms[pred])
             r == add_typing(remove_typing(H, pred, target_id).h,
                             pred, target_id, FnOf(pred_graph), TRUE)
         IN  With(r, LAMBDA v :
                  IF v.err # "none" THEN v
                  ELSE RestorePreds(v.h, target_id, Tail(preds), g_m_g,
                                    g_m_origin_ms))

restore_by_backward_composability(H, target_id, g_m_g, g_m_origin_ms) ==
    RestorePreds(H, target_id, Nb(H, target_id, TRUE), g_m_g, g_m_origin_ms)

\* "for graph_id, g_m_g in g_m_gs.items()"
RECURSIVE BackwardRestore(_, _, _, _)
BackwardRestore(H, keys, g_m_gs, g_m_origin_ms) ==
    IF keys = <<>> THEN Ok(H)
    ELSE LET r == restore_by_backward_composability(H, Head(keys),
                      g_m_gs[Head(keys)], g_m_origin_ms)
         IN  With(r, LAMBDA v :
                  IF v.err # "none" THEN v
                  ELSE BackwardRestore(v.h, Tail(keys), g_m_gs, g_m_origin_ms))

propagate_backward(H, origin_id, rule, instance, p_origin_m, p_typing) ==
    LET order == bfs_tree(H, origin_id, TRUE)
        r == BackwardLocal(H, origin_id, rule, instance, p_origin_m, p_typing,
                           order, [g \in {} |-> {}], [g \in {} |-> {}])
    IN  With(r, LAMBDA v : BackwardRestore(v.h, Keys(order, {}), v.gs, v.ms))

\* ---- rewrite: forward propagation -------------------------------------------
\* an added node gets the type listed for it in graph_id, or a new node of
\* graph_id when none is listed
RECURSIVE AddTypes(_, _, _, _, _, _, _)
AddTypes(H, origin_id, graph_id, names, rhs_origin_prime, rhs_typing, m) ==
    IF names = {} THEN [h |-> H, m |-> m]
    ELSE LET n == CHOOSE x \in names : TRUE
             o == CHOOSE x \in Img(rhs_origin_prime, n) : TRUE
             listed == IF n \in DOMAIN rhs_typing THEN rhs_typing[n] ELSE {}
             t == IF listed # {} THEN CHOOSE v \in listed : TRUE
                  ELSE Fresh(H.nodes[graph_id])
             H1 == IF listed # {} THEN H
                   ELSE [H EXCEPT !.nodes[graph_id] = @ \cup {t}]
             H2 == IF graph_id \in successors(H, origin_id)
                   THEN [H1 EXCEPT !.typing = @ \cup
                            set_intergraph_edge(H1, origin_id, graph_id, o, t)]
                   ELSE H1
         IN  AddTypes(H2, origin_id, graph_id, names \ {n}, rhs_origin_prime,
                      rhs_typing, m \cup {<<o, t>>})

propagate_node_addition(H, origin_id, graph_id, rule, rhs_origin_prime, rhs_typing, origin_prime_g_prime) ==
    AddTypes(H, origin_id, graph_id, added_nodes(rule), rhs_origin_prime,
             rhs_typing, origin_prime_g_prime)

RECURSIVE ForwardLocal(_, _, _, _, _, _, _, _)
ForwardLocal(H, origin_id, rule, rhs_origin_prime, rhs_typing, descendants, order, maps) ==
    IF order = <<>> THEN [h |-> H, maps |-> maps]
    ELSE LET graph == Head(order)
             rhs_graph_typing == IF graph \in DOMAIN rhs_typing
                                 THEN rhs_typing[graph] ELSE [n \in {} |-> {}]
             g_g_prime == Id(H.nodes[graph])
             r == IF added_nodes(rule) # {}
                  THEN propagate_node_addition(H, origin_id, graph, rule,
                           rhs_origin_prime, rhs_graph_typing, descendants[graph])
                  ELSE [h |-> H, m |-> descendants[graph]]
         IN  With([h |-> r.h,
                   maps |-> (graph :> [g_g_prime |-> g_g_prime,
                                       origin_prime_g_prime |-> r.m]) @@ maps],
                  LAMBDA v : ForwardLocal(v.h, origin_id, rule, rhs_origin_prime,
                                          rhs_typing, descendants, Tail(order),
                                          v.maps))

\* the map p -> z with p_z . a_p = a_z and p_z . b_p = b_z
get_unique_map_from_pushout(p, a_p, b_p, a_z, b_z) ==
    {<<value, z>> \in p \X AllNodeIds :
        \/ \E a \in a_p : a[2] = value /\ z \in Img(a_z, a[1])
        \/ \E b \in b_p : b[2] = value /\ z \in Img(b_z, b[1])}

RECURSIVE RestoreSucs(_, _, _, _)
RestoreSucs(H, graph_id, sucs, maps) ==
    IF sucs = <<>> THEN Ok(H)
    ELSE LET suc == Head(sucs)
             graph_suc == get_unique_map_from_pushout(
                              H.nodes[graph_id], maps[graph_id].g_g_prime,
                              maps[graph_id].origin_prime_g_prime,
                              get_typing(H, graph_id, suc),
                              maps[suc].origin_prime_g_prime)
             r == add_typing(remove_typing(H, graph_id, suc).h,
                             graph_id, suc, FnOf(graph_suc), TRUE)
         IN  With(r, LAMBDA v :
                  IF v.err # "none" THEN v
                  ELSE RestoreSucs(v.h, graph_id, Tail(sucs), maps))

RECURSIVE ForwardRestore(_, _, _)
ForwardRestore(H, keys, maps) ==
    IF keys = <<>> THEN Ok(H)
    ELSE LET r == RestoreSucs(H, Head(keys), Nb(H, Head(keys), FALSE), maps)
         IN  With(r, LAMBDA v :
                  IF v.err # "none" THEN v
                  ELSE ForwardRestore(v.h, Tail(keys), maps))

propagate_forward(H, origin_id, rule, rhs_origin_prime, rhs_typing) ==
    IF Recurses(H, origin_id) THEN Raise(H, "RecursionError")
    ELSE With([order |-> descendants_keys(H, origin_id),
               descendants |-> get_descendants(H, origin_id)],
              LAMBDA d :
                 With(ForwardLocal(H, origin_id, rule, rhs_origin_prime,
                                   rhs_typing, d.descendants, d.order,
                                   [g \in {} |-> {}]),
                      LAMBDA v : ForwardRestore(v.h, d.order, v.maps)))

\* ---- rewrite ----------------------------------------------------------------
\* the rewrites and the propagations, after the checks
rewrite_stages(H, graph_id, rule, instance, p_typing, rhs_typing) ==
    With(restrictive_rewrite(H, graph_id, rule, instance), LAMBDA s1 :
       With(propagate_backward(s1.h, graph_id, rule, instance, s1.p_g_m,
                               p_typing), LAMBDA s2 :
          IF s2.err # "none" THEN s2
          ELSE With(expansive_rewrite(s2.h, graph_id, rule, s1.p_g_m), LAMBDA s3 :
                  propagate_forward(s3.h, graph_id, rule, s3.rhs_g_prime,
                                    rhs_typing))))

\* the typings are checked after the graphs were rewritten
rewrite_checked_late(H, graph_id, rule, instance, p_typing, rhs_typing, strict) ==
    LET e == check_rule_instance_typing(H, graph_id, rule, instance, p_typing,
                                        rhs_typing, strict)
    IN  IF InstanceErr(H, graph_id, rule, instance) # "none" THEN Raise(H, e)
        ELSE IF e = "RewritingError"
        THEN Raise(rewrite_stages(H, graph_id, rule, instance, NoTyping, NoTyping).h, e)
        ELSE IF e # "none" THEN Raise(H, e)
        ELSE rewrite_stages(H, graph_id, rule, instance, p_typing,
                            Autocomplete(H, rhs_typing))

rewrite(H, graph_id, rule, instance, p_typing, rhs_typing, strict) ==
    LET e == check_rule_instance_typing(H, graph_id, rule, instance, p_typing,
                                        rhs_typing, strict)
    IN  IF e # "none" THEN Raise(H, e)
        ELSE rewrite_stages(H, graph_id, rule, instance, p_typing,
                            Autocomplete(H, rhs_typing))

\* ---- get_rule_propagations --------------------------------------------------
\* the checks of rewrite without strictness, then the rules of the ancestors
\* and of the descendants; nothing is stored. "for ancestor, origin_typing in
\* ancestors" and "for descendant, origin_typing in descendants" go through
\* the keys of a dict and take each key, a graph id, for a pair
get_rule_propagations(H, origin_id, rule, instance, p_typing, rhs_typing) ==
    LET e == check_rule_instance_typing(H, origin_id, rule, instance, p_typing,
                                        rhs_typing, FALSE)
    IN  IF e # "none" THEN Raise(H, e)
        ELSE IF RecursesBack(H, origin_id) \/ Recurses(H, origin_id)
        THEN Raise(H, "RecursionError")
        ELSE IF DOMAIN get_ancestors(H, origin_id) # {}
                \/ DOMAIN get_descendants(H, origin_id) # {}
        THEN Raise(H, "ValueError")
        ELSE [h |-> H, err |-> "none",
              ret |-> [rules |-> (origin_id :> rule),
                       instances |-> (origin_id :> instance)]]

\* ---- copy_graph, duplicate_subgraph ---------------------------------------
\* the graphs r of the relations (l, r) of the skeleton with l = g
adjacent_relations(H, g) == {e[2] : e \in {x \in relations(H) : x[1] = g}}

\* "for g in attach_graphs": the typing in each direction, then the relation
RECURSIVE CopyAttach(_, _, _, _)
CopyAttach(H, graph_id, new_graph_id, attach_graphs) ==
    IF attach_graphs = <<>> THEN Ok(H)
    ELSE LET g == Head(attach_graphs)
             r1 == IF g \in successors(H, graph_id)
                   THEN add_typing(H, new_graph_id, g,
                                   FnOf(get_typing(H, graph_id, g)), TRUE)
                   ELSE Ok(H)
             r2 == IF g \in predecessors(r1.h, graph_id)
                   THEN add_typing(r1.h, g, new_graph_id,
                                   FnOf(get_typing(r1.h, g, graph_id)), TRUE)
                   ELSE Ok(r1.h)
             r3 == IF graph_id \notin r2.h.graphs
                   THEN Raise(r2.h, "HierarchyError")
                   ELSE IF g \in adjacent_relations(r2.h, graph_id)
                   THEN add_relation(r2.h, g, new_graph_id,
                                     get_relation(r2.h, g, graph_id))
                   ELSE Ok(r2.h)
         IN  IF r1.err # "none" THEN r1
             ELSE IF r2.err # "none" THEN r2
             ELSE IF r3.err # "none" THEN r3
             ELSE CopyAttach(r3.h, graph_id, new_graph_id, Tail(attach_graphs))

copy_graph(H, graph_id, new_graph_id, attach_graphs) ==
    IF new_graph_id \in H.graphs
    THEN Raise(H, "HierarchyError")
    ELSE LET r == add_graph(H, new_graph_id, {}, {}, H.gattrs[graph_id])
             H1 == [r.h EXCEPT !.nodes[new_graph_id] = @ \cup H.nodes[graph_id],
                               !.edges[new_graph_id] = @ \cup H.edges[graph_id]]
         IN  CopyAttach(H1, graph_id, new_graph_id, attach_graphs)

\* graph_dict is the sequence of the items <<original, new>> of the dict
NewOf(graph_dict, g) ==
    graph_dict[CHOOSE i \in DOMAIN graph_dict : graph_dict[i][1] = g][2]

DictKeys(graph_dict) == {graph_dict[i][1] : i \in DOMAIN graph_dict}

RECURSIVE CopyAll(_, _, _)
CopyAll(H, items, attach_graphs) ==
    IF items = <<>> THEN Ok(H)
    ELSE LET r == copy_graph(H, Head(items)[1], Head(items)[2], attach_graphs)
         IN  IF r.err # "none" THEN r
             ELSE CopyAll(r.h, Tail(items), attach_graphs)

\* add_typing between the copies of the pairs <<source, target>> of originals
RECURSIVE CopyTypings(_, _, _)
CopyTypings(H, pairs, graph_dict) ==
    IF pairs = <<>> THEN Ok(H)
    ELSE LET e == Head(pairs)
             r == add_typing(H, NewOf(graph_dict, e[1]), NewOf(graph_dict, e[2]),
                             FnOf(get_typing(H, e[1], e[2])), TRUE)
         IN  IF r.err # "none" THEN r
             ELSE CopyTypings(r.h, Tail(pairs), graph_dict)

PairsOf(seq, g, forward) ==
    [i \in DOMAIN seq |-> IF forward THEN <<g, seq[i]>> ELSE <<seq[i], g>>]

\* "for g in graph_dict.keys()": the successors, then the predecessors
RECURSIVE DuplicateTypings(_, _, _, _)
DuplicateTypings(H, keys, graph_dict, visited) ==
    IF keys = <<>> THEN Ok(H)
    ELSE LET g == Head(keys)
             preds == SeqOfSet({p \in predecessors(H, g) :
                         p \in DictKeys(graph_dict) /\ <<p, g>> \notin visited})
             sucs == SeqOfSet({p \in successors(H, g) :
                         p \in DictKeys(graph_dict) /\ <<g, p>> \notin visited})
             pairs == PairsOf(sucs, g, TRUE) \o PairsOf(preds, g, FALSE)
             r == CopyTypings(H, pairs, graph_dict)
         IN  IF r.err # "none" THEN r
             ELSE DuplicateTypings(r.h, Tail(keys), graph_dict,
                                   visited \cup Range(pairs))

duplicate_subgraph(H, graph_dict, attach_graphs) ==
    IF \E i \in DOMAIN graph_dict : graph_dict[i][2] \in H.graphs
    THEN Raise(H, "HierarchyError")
    ELSE LET r == CopyAll(H, graph_dict, attach_graphs)
         IN  IF r.err # "none" THEN r
             ELSE DuplicateTypings(r.h,
                      [i \in DOMAIN graph_dict |-> graph_dict[i][1]],
                      graph_dict, {})

\* ---- actions --------------------------------------------------------------
AddGraph ==
    \E g \in GraphIds, nl \in NodeLists, el \in EdgeLists, at \in AttrVals :
       Call("add_graph", add_graph(Cur, g, nl, el, at))

AddPlainGraph ==
    \E g \in GraphIds, nl \in NodeLists \ {{}}, el \in EdgeLists :
       Call("add_graph", add_graph(Cur, g, nl, el, "p"))

\* graphs are named in the order of GraphOrder
AddNodeGraph ==
    \E i \in DOMAIN GraphOrder :
       /\ GraphOrder[i] \notin graphs
       /\ \A j \in 1..(i - 1) : GraphOrder[j] \in graphs
       /\ Call("add_graph", add_graph(Cur, GraphOrder[i], NodeIds, {}, "p"))

AddTotalTyping ==
    \E s, t \in GraphIds, m \in [NodeIds -> NodeIds], c \in CheckValues :
       Call("add_typing", add_typing(Cur, s, t, m, c))

AddEmptyGraph ==
    \E g \in GraphIds, at \in AttrVals :
       Call("add_empty_graph", add_empty_graph(Cur, g, at))

AddTyping ==
    \E s, t \in GraphIds, m \in Mappings, c \in CheckValues :
       Call("add_typing", add_typing(Cur, s, t, m, c))

RemoveGraph ==
    \E g \in GraphIds : Call("remove_graph", remove_graph(Cur, g, FALSE))

RemoveGraphReconnect ==
    \E g \in GraphIds :
       Call("remove_graph_reconnect", remove_graph(Cur, g, TRUE))

RemoveTyping ==
    \E s, t \in GraphIds : Call("remove_typing", remove_typing(Cur, s, t))

HierarchyRemoveTyping ==
    \E s, t \in GraphIds :
       Call("hierarchy_remove_typing", hierarchy_remove_typing(Cur, s, t))

AddRelation ==
    \E l, r \in GraphIds, rel \in Relations :
       Call("add_relation", add_relation(Cur, l, r, rel))

HierarchyAddRelation ==
    \E l, r \in GraphIds, rel \in Relations :
       Call("hierarchy_add_relation", hierarchy_add_relation(Cur, l, r, rel))

RemoveRelation ==
    \E l, r \in GraphIds :
       Call("remove_relation", remove_relation(Cur, l, r))

HierarchyRemoveRelation ==
    \E l, r \in GraphIds :
       Call("hierarchy_remove_relation", hierarchy_remove_relation(Cur, l, r))

Args(rule, instance, p_typing, rhs_typing, strict) ==
    [rule |-> rule, instance |-> instance, p_typing |-> p_typing,
     rhs_typing |-> rhs_typing, strict |-> strict]

\* the calls of rewrite: every rule at every instance without typings, the
\* typings of the interface and of the rhs with the rules that keep or add
\* a node, strict rewriting with the rule that adds a node
RewriteArgs ==
    UNION {{Args(rule, i, NoTyping, NoTyping, FALSE) : i \in Instances(rule)} :
              rule \in Rules}
    \cup {Args(IdRule, [x \in {"a"} |-> "a"], t, NoTyping, FALSE) :
             t \in PTypings(IdRule)}
    \cup {Args(IdRule, [x \in {"a"} |-> "a"], NoTyping, t, FALSE) :
             t \in RhsTypings(IdRule)}
    \cup {Args(AddRule, [x \in {} |-> "a"], NoTyping, t, strict) :
             t \in RhsTypings(AddRule), strict \in BOOLEAN}

\* the calls of rewrite without typings that keep, remove or add one node
PlainArgs ==
    {a \in RewriteArgs : /\ a.p_typing = NoTyping /\ a.rhs_typing = NoTyping
                         /\ a.rule \in {IdRule, DelRule, AddRule}
                         /\ DOMAIN a.instance = a.rule.lhs}

RewritePlain ==
    \E g \in GraphIds, a \in PlainArgs :
       /\ \A x \in GraphIds : ~ (Range(FreshIds) \subseteq nodes[x])
       /\ Call("rewrite", rewrite(Cur, g, a.rule, a.instance, a.p_typing,
                                  a.rhs_typing, a.strict))

\* the ids of new nodes are taken from FreshIds
Rewrite ==
    \E g \in GraphIds, a \in RewriteArgs :
       /\ \A x \in GraphIds : ~ (Range(FreshIds) \subseteq nodes[x])
       /\ Call("rewrite", rewrite(Cur, g, a.rule, a.instance, a.p_typing,
                                  a.rhs_typing, a.strict))

\* the lists of graphs to attach: none, one graph, all the graphs
AttachLists == {<<>>, GraphOrder} \cup {<<g>> : g \in GraphIds}

\* the dicts of one or two graphs to duplicate
GraphDicts ==
    {<<x>> : x \in GraphIds \X GraphIds}
    \cup {<<x, y>> : <<x, y>> \in {<<v, w>> \in (GraphIds \X GraphIds)
                                       \X (GraphIds \X GraphIds) : v[1] # w[1]}}

\* the graph copied is a graph of the hierarchy
CopyGraph ==
    \E g \in graphs, n \in GraphIds, at \in AttachLists :
       Call("copy_graph", copy_graph(Cur, g, n, at))

DuplicateSubgraph ==
    \E d \in GraphDicts, at \in AttachLists :
       /\ DictKeys(d) \subseteq graphs
       /\ Call("duplicate_subgraph", duplicate_subgraph(Cur, d, at))

\* the queries return a value and leave the store as it is
Returns(H, value) == [h |-> H, err |-> "none", ret |-> value]

GetAncestors ==
    \E g \in graphs :
       Call("get_ancestors",
            IF RecursesBack(Cur, g) THEN Raise(Cur, "RecursionError")
            ELSE Returns(Cur, get_ancestors(Cur, g)))

GetDescendants ==
    \E g \in graphs :
       Call("get_descendants",
            IF Recurses(Cur, g) THEN Raise(Cur, "RecursionError")
            ELSE Returns(Cur, get_descendants(Cur, g)))

\* ---- rewrite, stage by stage ---------------------------------------------
SetStore(H) ==
    /\ graphs' = H.graphs
    /\ gattrs' = H.gattrs
    /\ nodes' = H.nodes
    /\ edges' = H.edges
    /\ skeleton' = H.skeleton
    /\ typing' = H.typing
    /\ relation' = H.relation

\* a stage is over and the call goes on
Advance(stage, H, locals) ==
    /\ pc' = stage
    /\ call' = locals
    /\ done' = Append(done, stage)
    /\ steps' = steps + 1
    /\ SetStore(H)
    /\ UNCHANGED <<lastOp, err, ret>>

\* the call is over: it raised in the stage, or returned value after it
Finish(stage, r, value) ==
    /\ pc' = "idle"
    /\ call' = call
    /\ done' = Append(done, stage)
    /\ steps' = steps + 1
    /\ SetStore(r.h)
    /\ lastOp' = "rewrite"
    /\ err' = r.err
    /\ ret' = IF r.err = "none" THEN value ELSE <<>>

\* "instance, p_typing, rhs_typing = self._check_rule_instance_typing(...)"
StageCheck ==
    \E g \in GraphIds, a \in RewriteArgs :
       LET e == check_rule_instance_typing(Cur, g, a.rule, a.instance,
                                           a.p_typing, a.rhs_typing, a.strict)
       IN  /\ pc = "idle"
           /\ \A x \in GraphIds : ~ (Range(FreshIds) \subseteq nodes[x])
           /\ IF e # "none"
              THEN /\ pc' = "idle"
                   /\ call' = call
                   /\ done' = <<"check">>
                   /\ steps' = steps + 1
                   /\ lastOp' = "rewrite"
                   /\ err' = e
                   /\ ret' = <<>>
                   /\ UNCHANGED hier
              ELSE /\ pc' = "check"
                   /\ call' = [origin |-> g, rule |-> a.rule,
                               instance |-> a.instance,
                               p_typing |-> a.p_typing,
                               rhs_typing |-> Autocomplete(Cur, a.rhs_typing),
                               p_g_m |-> <<>>, rhs_g_prime |-> {}]
                   /\ done' = <<"check">>
                   /\ steps' = steps + 1
                   /\ UNCHANGED <<hier, lastOp, err, ret>>

\* "p_g_m, g_m_g = self._restrictive_rewrite(graph_id, rule, instance)"
StageRestrictive ==
    /\ pc = "check"
    /\ LET s1 == restrictive_rewrite(Cur, call.origin, call.rule, call.instance)
       IN  Advance("restrictive", s1.h, [call EXCEPT !.p_g_m = s1.p_g_m])

\* expansive rewrite as soon as the restrictive rewrite is over
StageExpansiveEarly ==
    /\ pc \in {"restrictive", "backward"}
    /\ LET s3 == expansive_rewrite(Cur, call.origin, call.rule, call.p_g_m)
       IN  Advance("expansive", s3.h, [call EXCEPT !.rhs_g_prime = s3.rhs_g_prime])

\* "self._propagate_backward(...)"
StageBackward ==
    /\ pc = "restrictive"
    /\ LET s2 == propagate_backward(Cur, call.origin, call.rule, call.instance,
                                     call.p_g_m, call.p_typing)
       IN  IF s2.err # "none" THEN Finish("backward", s2, <<>>)
           ELSE Advance("backward", s2.h, call)

\* "rhs_g_prime, g_m_g_prime = self._expansive_rewrite(graph_id, rule, p_g_m)"
StageExpansive ==
    /\ pc = "backward"
    /\ LET s3 == expansive_rewrite(Cur, call.origin, call.rule, call.p_g_m)
       IN  Advance("expansive", s3.h, [call EXCEPT !.rhs_g_prime = s3.rhs_g_prime])

\* "self._propagate_forward(...)" and "return rhs_g_prime"
StageForward ==
    /\ pc = "expansive"
    /\ Finish("forward",
              propagate_forward(Cur, call.origin, call.rule, call.rhs_g_prime,
                                call.rhs_typing),
              call.rhs_g_prime)

GetRulePropagations ==
    \E g \in GraphIds, a \in RewriteArgs :
       /\ ~ a.strict
       /\ Call("get_rule_propagations",
               get_rule_propagations(Cur, g, a.rule, a.instance, a.p_typing,
                                     a.rhs_typing))

\* ---- strict rewriting ---------------------------------------------------------
\* a call whose arguments are kept in call
KeptCall(op, r, c) ==
    /\ pc = "idle"
    /\ UNCHANGED <<pc, done>>
    /\ call' = c
    /\ steps' = steps + 1
    /\ lastOp' = op
    /\ \E v \in {r} :
          /\ err' = v.err
          /\ ret' = IF "ret" \in DOMAIN v THEN v.ret ELSE <<>>
          /\ graphs' = v.h.graphs
          /\ gattrs' = v.h.gattrs
          /\ nodes' = v.h.nodes
          /\ edges' = v.h.edges
          /\ skeleton' = v.h.skeleton
          /\ typing' = v.h.typing
          /\ relation' = v.h.relation

\* strict calls with the rules that add the node c, with and without a type
\* for c in one graph
StrictArgs ==
    {Args(rule, [x \in rule.lhs |-> "a"], NoTyping, t, TRUE) :
        rule \in {AddRule, KeepAddRule}, t \in RhsTypings(AddRule)}

RewriteStrict ==
    \E g \in graphs, a \in StrictArgs :
       /\ \A x \in GraphIds : ~ (Range(FreshIds) \subseteq nodes[x])
       /\ KeptCall("rewrite",
                   rewrite(Cur, g, a.rule, a.instance, a.p_typing,
                           a.rhs_typing, a.strict),
                   [origin |-> g, args |-> a])

\* ---- rewriting with rules that change nothing ---------------------------------
EmptyRule == [lhs |-> {}, p |-> {}, rhs |-> {},
              p_lhs |-> [x \in {} |-> "a"], p_rhs |-> [x \in {} |-> "a"]]

\* the rules with L = P = R and identity maps at their instances, and the
\* empty rule
IdentityArgs ==
    {Args(IdRule, [x \in {"a"} |-> v], NoTyping, NoTyping, FALSE) : v \in NodeIds}
    \cup {Args(PairRule, [x \in {"a", "b"} |-> x], NoTyping, NoTyping, FALSE),
          Args(EmptyRule, [x \in {} |-> "a"], NoTyping, NoTyping, FALSE)}

RewriteIdentity ==
    \E g \in graphs, a \in IdentityArgs :
       KeptCall("rewrite",
                rewrite(Cur, g, a.rule, a.instance, a.p_typing,
                        a.rhs_typing, a.strict),
                [origin |-> g, args |-> a])

\* ---- rewriting with a rule that clones ----------------------------------------
\* the control of the clones of scenario S1: in graph g the node a gets a1 and
\* the node b gets a2
S1Typing(g) == g :> (("a" :> {"a1"}) @@ ("b" :> {"a2"}))

CloneArgs ==
    {Args(CloneRule, [x \in {"a"} |-> v], t, NoTyping, FALSE) :
        v \in NodeIds,
        t \in {NoTyping} \cup {S1Typing(g) : g \in GraphIds}
                         \cup {g :> ("a" :> {"a1"}) : g \in GraphIds}}

RewriteClone ==
    \E g \in graphs, a \in CloneArgs :
       /\ \A x \in GraphIds : ~ (Range(FreshIds) \subseteq nodes[x])
       /\ ~ RecursesBack(Cur, g)
       /\ KeptCall("rewrite",
                   rewrite(Cur, g, a.rule, a.instance, a.p_typing,
                           a.rhs_typing, a.strict),
                   [origin |-> g, args |-> a])

\* ---- rewriting with the rule that deletes a node ------------------------------
RewriteDelete ==
    \E g \in graphs, v \in NodeIds :
       KeptCall("rewrite",
                rewrite(Cur, g, DelRule, [x \in {"a"} |-> v], NoTyping,
                        NoTyping, FALSE),
                [origin |-> g,
                 args |-> Args(DelRule, [x \in {"a"} |-> v], NoTyping,
                               NoTyping, FALSE)])

\* ---- to_json, from_json -------------------------------------------------------
\* attributes are written as a tagged list and read back from it
attrs_to_json(attrs) == <<"FiniteSet", attrs>>

attrs_from_json(json_data) == json_data[2]

\* the pairs of graphs of S in the order of the listing
PairSeq(S) ==
    LET n == Len(StoreOrder)
    IN  SelectSeq([i \in 1..(n * n) |->
                     <<StoreOrder[((i - 1) \div n) + 1],
                       StoreOrder[((i - 1) % n) + 1]>>],
                  LAMBDA x : x \in S)

\* "if not (u, v) in visited and not (v, u) in visited"
RECURSIVE JsonRelations(_, _, _)
JsonRelations(H, rels, visited) ==
    IF rels = <<>> THEN {}
    ELSE LET u == Head(rels)[1]
             v == Head(rels)[2]
         IN  IF <<u, v>> \notin visited /\ <<v, u>> \notin visited
             THEN {[from |-> u, to |-> v, rel |-> get_relation(H, u, v)]}
                  \cup JsonRelations(H, Tail(rels), visited \cup {<<u, v>>})
             ELSE JsonRelations(H, Tail(rels), visited)

\* self.graphs(True), self.typings(True) and self.relations(True) are taken
\* to list the graphs, the typings and the relations with their attributes
to_json(H) ==
    [graphs |-> {[id |-> g,
                  graph |-> [nodes |-> H.nodes[g], edges |-> H.edges[g]],
                  attrs |-> attrs_to_json(H.gattrs[g])] : g \in H.graphs},
     typing |-> {[from |-> e[1], to |-> e[2],
                  mapping |-> get_typing(H, e[1], e[2])] : e \in typings(H)},
     relations |-> JsonRelations(H, PairSeq(relations(H)), {})]

\* "hierarchy.add_graph_from_json(graph_data["id"], graph_data["graph"], attrs)"
RECURSIVE FromJsonGraphs(_, _, _)
FromJsonGraphs(H, ids, json_data) ==
    IF ids = <<>> THEN Ok(H)
    ELSE LET graph_data == CHOOSE d \in json_data.graphs : d.id = Head(ids)
             r == add_graph_from_data(H, graph_data.id, graph_data.graph.nodes,
                                      graph_data.graph.edges,
                                      attrs_from_json(graph_data.attrs))
         IN  IF r.err # "none" THEN r
             ELSE FromJsonGraphs(r.h, Tail(ids), json_data)

\* "hierarchy.add_typing(from, to, mapping, attrs)"
RECURSIVE FromJsonTypings(_, _, _)
FromJsonTypings(H, pairs, json_data) ==
    IF pairs = <<>> THEN Ok(H)
    ELSE LET typing_data == CHOOSE d \in json_data.typing :
                               <<d.from, d.to>> = Head(pairs)
             r == add_typing(H, typing_data.from, typing_data.to,
                             FnOf(typing_data.mapping), TRUE)
         IN  IF r.err # "none" THEN r
             ELSE FromJsonTypings(r.h, Tail(pairs), json_data)

\* "if (from_g, to_g) not in hierarchy.relations(): hierarchy.add_relation(...)"
RECURSIVE FromJsonRelations(_, _, _)
FromJsonRelations(H, pairs, json_data) ==
    IF pairs = <<>> THEN Ok(H)
    ELSE LET relation_data == CHOOSE d \in json_data.relations :
                                 <<d.from, d.to>> = Head(pairs)
             r == IF Head(pairs) \notin relations(H)
                  THEN add_relation(H, relation_data.from, relation_data.to,
                                    relation_data.rel)
                  ELSE Ok(H)
         IN  IF r.err # "none" THEN r
             ELSE FromJsonRelations(r.h, Tail(pairs), json_data)

from_json(json_data) ==
    LET r1 == FromJsonGraphs(Empty, SeqOfSet({d.id : d \in json_data.graphs}),
                             json_data)
        r2 == FromJsonTypings(r1.h,
                  PairSeq({<<d.from, d.to>> : d \in json_data.typing}), json_data)
        r3 == FromJsonRelations(r2.h,
                  PairSeq({<<d.from, d.to>> : d \in json_data.relations}),
                  json_data)
    IN  IF r1.err # "none" THEN r1
        ELSE IF r2.err # "none" THEN r2
        ELSE r3

\* the hierarchy is written and read back; the store is left as it is and the
\* hierarchy read is returned
RoundTrip ==
    LET r == from_json(to_json(Cur))
    IN  KeptCall("from_json", [h |-> Cur, err |-> r.err, ret |-> r.h],
                 to_json(Cur))

\* ---- walks of the hierarchy ---------------------------------------------------
\* graphs with the one node a, named in the order of StoreOrder
AddSmallGraph ==
    \E i \in DOMAIN StoreOrder :
       /\ StoreOrder[i] \notin graphs
       /\ \A j \in 1..(i - 1) : StoreOrder[j] \in graphs
       /\ Call("add_graph", add_graph(Cur, StoreOrder[i], {"a"}, {}, "p"))

\* typings along the order of StoreOrder, which every acyclic hierarchy has
\* up to the names of its graphs
AddSmallTyping ==
    \E i, j \in DOMAIN StoreOrder :
       /\ i < j
       /\ {StoreOrder[i], StoreOrder[j]} \subseteq graphs
       /\ <<StoreOrder[i], StoreOrder[j]>> \notin typings(Cur)
       /\ Call("add_typing",
               add_typing(Cur, StoreOrder[i], StoreOrder[j],
                          [x \in {"a"} |-> "a"], TRUE))

BfsTree ==
    \E g \in graphs, reverse \in BOOLEAN :
       KeptCall("bfs_tree", Returns(Cur, bfs_tree(Cur, g, reverse)),
                [graph |-> g, reverse |-> reverse])

\* the local updates of _propagate_backward that the rule asks for, in the
\* order of the code
LocalSteps(rule) ==
    (IF cloned_nodes(rule) # {} THEN <<"_propagate_clone">> ELSE <<>>)
    \o (IF removed_nodes(rule) # {} THEN <<"_propagate_node_removal">> ELSE <<>>)

\* the calls <<graph_id, step>> made while the graphs of order are visited
RECURSIVE StepsOn(_, _)
StepsOn(order, local) ==
    IF order = <<>> THEN <<>>
    ELSE [i \in DOMAIN local |-> <<Head(order), local[i]>>]
         \o StepsOn(Tail(order), local)

BackwardSteps(H, origin_id, rule) ==
    StepsOn(bfs_tree(H, origin_id, TRUE), LocalSteps(rule))

\* the local updates of _propagate_forward that the rule asks for
ForwardLocalSteps(rule) ==
    (IF merged_nodes(rule) # {} THEN <<"_propagate_merge">> ELSE <<>>)
    \o (IF added_nodes(rule) # {} THEN <<"_propagate_node_addition">> ELSE <<>>)

ForwardSteps(H, origin_id, rule) ==
    StepsOn(descendants_keys(H, origin_id), ForwardLocalSteps(rule))

\* typings of the rhs by two graphs: the kept node by the one and the added
\* node by the other, or the added node by both
WalkTypings ==
    {(x[1] :> (n :> {"a"})) @@ (x[2] :> ("c" :> vs)) :
        x \in {<<"g2", "g3">>, <<"g2", "g4">>, <<"g3", "g4">>},
        n \in {"a", "c"}, vs \in {{"a"}, {"b"}}}

WalkArgs ==
    {Args(DelRule, [x \in {"a"} |-> "a"], NoTyping, NoTyping, FALSE),
     Args(AddRule, [x \in {} |-> "a"], NoTyping, NoTyping, FALSE)}
    \cup {Args(KeepAddRule, [x \in {"a"} |-> "a"], NoTyping, t, FALSE) :
             t \in WalkTypings}

\* rewriting with the rule that deletes a, with the rule that adds a node and
\* with the rule that keeps a and adds a node: call keeps the stage that the
\* rewrite has come to, the local updates of the two propagations and the
\* rhs_typing as the checks leave it to the caller
RewriteWalk ==
    \E g \in graphs, a \in WalkArgs :
       LET e == check_rule_instance_typing(Cur, g, a.rule, a.instance,
                                           a.p_typing, a.rhs_typing, a.strict)
           s1 == restrictive_rewrite(Cur, g, a.rule, a.instance)
           s2 == propagate_backward(s1.h, g, a.rule, a.instance, s1.p_g_m,
                                    a.p_typing)
           stage == IF e # "none" THEN "check"
                    ELSE IF s2.err # "none" THEN "backward" ELSE "forward"
       IN  /\ \A x \in graphs : x \notin TypingReach(Cur, x)
           /\ KeptCall("rewrite",
                       rewrite(Cur, g, a.rule, a.instance, a.p_typing,
                               a.rhs_typing, a.strict),
                       [origin |-> g, args |-> a, stage |-> stage,
                        local |-> IF stage = "check" THEN <<>>
                                  ELSE BackwardSteps(Cur, g, a.rule),
                        forward |-> IF stage # "forward" THEN <<>>
                                    ELSE ForwardSteps(Cur, g, a.rule),
                        completed |-> IF stage = "check" THEN a.rhs_typing
                                      ELSE Autocomplete(Cur, a.rhs_typing)])

\* ---- equality of hierarchies ---------------------------------------------------
\* "self == hierarchy": the graphs of self with their attributes, its typings
\* and its relations are looked up in hierarchy; typings and relations are
\* stored without attributes
hierarchy_eq(H, hierarchy) ==
    /\ \A node \in H.graphs :
          /\ node \in hierarchy.graphs
          /\ H.gattrs[node] = hierarchy.gattrs[node]
    /\ \A e \in typings(H) : e \in typings(hierarchy)
    /\ \A e \in relations(H) :
          <<e[1], e[2]>> \in relations(hierarchy)
             \/ <<e[2], e[1]>> \in relations(hierarchy)

\* the hierarchies built by the calls that built H and one more call
Others(H) ==
    {H}
    \cup {remove_graph(H, g, FALSE).h : g \in H.graphs}
    \cup {remove_typing(H, e[1], e[2]).h : e \in typings(H)}
    \cup {remove_relation(H, e[1], e[2]).h : e \in relations(H)}
    \cup {add_empty_graph(H, g, at).h : g \in GraphIds \ H.graphs, at \in AttrVals}

\* the two comparisons of the hierarchy with another one
Compare ==
    \E other \in Others(Cur) :
       KeptCall("__eq__",
                Returns(Cur, <<hierarchy_eq(Cur, other), hierarchy_eq(other, Cur)>>),
                [other |-> other])

\* ---- homomorphisms of graphs with attributes --------------------------------
AttrSets == {{}, {"x"}}

AttrGraphs ==
    UNION {{AttrGraph(ns, es, na, ea) :
               na \in [ns -> AttrSets], ea \in [es -> AttrSets]} :
           <<ns, es>> \in {<<{"a"}, {}>>, <<{"a", "b"}, {}>>,
                           <<{"a", "b"}, {<<"a", "b">>}>>}}

\* a call outside the hierarchy: the arguments are kept in call
Checked(op, source, target, mapping, e) ==
    /\ pc = "idle"
    /\ lastOp' = op
    /\ err' = e
    /\ ret' = <<>>
    /\ call' = [source |-> source, target |-> target, mapping |-> mapping]
    /\ steps' = steps + 1
    /\ UNCHANGED <<hier, pc, done>>

CheckHomomorphism ==
    \E A, B \in AttrGraphs, m \in Mappings :
       Checked("check_homomorphism", A, B, m, check_homomorphism_total(A, B, m))

CheckInstance ==
    \E A, B \in AttrGraphs, m \in Mappings :
       Checked("check_instance", A, B, m, instance_check(A, B, m))

\* ---- specifications -------------------------------------------------------
\* graphs and typings
Next ==
    \/ steps < MaxSteps /\ AddPlainGraph
    \/ steps < MaxSteps /\ AddTyping
    \/ steps < MaxSteps /\ RemoveGraph
    \/ steps < MaxSteps /\ RemoveGraphReconnect
    \/ steps < MaxSteps /\ RemoveTyping
    \/ steps < MaxSteps /\ HierarchyRemoveTyping

Spec == Init /\ [][Next]_vars

\* graphs and their attributes
NextGraphs ==
    \/ steps < GraphSteps /\ AddGraph
    \/ steps < GraphSteps /\ AddEmptyGraph
    \/ steps < GraphSteps /\ RemoveGraph

SpecGraphs == Init /\ [][NextGraphs]_vars

\* graphs and relations
NextRel ==
    \/ steps < RelSteps /\ AddPlainGraph
    \/ steps < RelSteps /\ AddRelation
    \/ steps < RelSteps /\ HierarchyAddRelation
    \/ steps < RelSteps /\ RemoveRelation
    \/ steps < RelSteps /\ HierarchyRemoveRelation

SpecRel == Init /\ [][NextRel]_vars

\* graphs, typings and rewriting
NextRewrite ==
    \/ steps < RewriteSteps /\ AddPlainGraph
    \/ steps < RewriteSteps /\ AddTyping
    \/ steps < RewriteSteps /\ Rewrite

SpecRewrite == Init /\ [][NextRewrite]_vars

\* graphs of two nodes without edges, total typings, removal with reconnection
\* and rewriting
NextPaths ==
    \/ steps < PathSteps /\ AddNodeGraph
    \/ steps < PathSteps /\ AddTotalTyping
    \/ steps < PathSteps /\ RemoveGraphReconnect
    \/ steps < PathSteps /\ RewritePlain

SpecPaths == Init /\ [][NextPaths]_vars

\* graphs, typings, relations and copies
NextCopy ==
    \/ steps < CopySteps /\ AddPlainGraph
    \/ steps < CopySteps /\ AddTyping
    \/ steps < CopySteps /\ AddRelation
    \/ steps < CopySteps /\ CopyGraph
    \/ steps < CopySteps /\ DuplicateSubgraph

SpecCopy == Init /\ [][NextCopy]_vars

\* graphs of two nodes, total typings and the queries of the typing paths
NextAnc ==
    \/ steps < AncSteps /\ AddNodeGraph
    \/ steps < AncSteps /\ AddTotalTyping
    \/ steps < AncSteps /\ GetAncestors
    \/ steps < AncSteps /\ GetDescendants

SpecAnc == Init /\ [][NextAnc]_vars

\* graphs and typings, then rewriting stage by stage
NextStages ==
    \/ steps < SetupSteps /\ AddNodeGraph
    \/ steps < SetupSteps /\ AddTotalTyping
    \/ steps < StageSteps /\ StageCheck
    \/ steps < StageSteps /\ StageRestrictive
    \/ steps < StageSteps /\ StageBackward
    \/ steps < StageSteps /\ StageExpansive
    \/ steps < StageSteps /\ StageForward

SpecStages == Init /\ [][NextStages]_vars

\* graphs of two nodes and total typings, then one call that checks the
\* rule, the instance and the typings
Built == lastOp \in {"rewrite", "get_rule_propagations"}

NextChecks ==
    \/ steps < CheckSteps /\ ~ Built /\ AddNodeGraph
    \/ steps < CheckSteps /\ ~ Built /\ AddTotalTyping
    \/ steps < CheckSteps /\ ~ Built /\ Rewrite
    \/ steps < CheckSteps /\ ~ Built /\ GetRulePropagations

SpecChecks == Init /\ [][NextChecks]_vars

\* one check of a mapping between two graphs with attributes
NextHom ==
    \/ lastOp = "init" /\ CheckHomomorphism
    \/ lastOp = "init" /\ CheckInstance

SpecHom == Init /\ [][NextHom]_vars

\* a hierarchy is built, then one strict rewrite is made
NextStrict ==
    \/ steps < StrictSteps /\ lastOp # "rewrite" /\ AddNodeGraph
    \/ steps < StrictSteps /\ lastOp # "rewrite" /\ AddTotalTyping
    \/ steps < StrictSteps /\ lastOp # "rewrite" /\ RewriteStrict

SpecStrict == Init /\ [][NextStrict]_vars

\* a hierarchy is built and rewritten with rules that change nothing
NextIdentity ==
    \/ steps < IdentitySteps /\ AddNodeGraph
    \/ steps < IdentitySteps /\ AddTotalTyping
    \/ steps < IdentitySteps /\ AddRelation
    \/ steps < IdentitySteps /\ RewriteIdentity

SpecIdentity == Init /\ [][NextIdentity]_vars

\* a hierarchy is built, then one rewrite with the cloning rule is made
NextClone ==
    \/ steps < CloneSteps /\ lastOp # "rewrite" /\ AddNodeGraph
    \/ steps < CloneSteps /\ lastOp # "rewrite" /\ AddTotalTyping
    \/ steps < CloneSteps /\ lastOp # "rewrite" /\ RewriteClone

SpecClone == Init /\ [][NextClone]_vars

\* a hierarchy of graphs of one or two nodes is built, then a node is deleted
NextDelete ==
    \/ steps < DeleteSteps /\ lastOp # "rewrite" /\ AddPlainGraph
    \/ steps < DeleteSteps /\ lastOp # "rewrite" /\ AddTyping
    \/ steps < DeleteSteps /\ lastOp # "rewrite" /\ RewriteDelete

SpecDelete == Init /\ [][NextDelete]_vars

\* a hierarchy with typings and relations is built, then written and read
NextJson ==
    \/ steps < JsonSteps /\ lastOp # "from_json" /\ AddNodeGraph
    \/ steps < JsonSteps /\ lastOp # "from_json" /\ AddTotalTyping
    \/ steps < JsonSteps /\ lastOp # "from_json" /\ AddRelation
    \/ steps < JsonSteps /\ lastOp # "from_json" /\ RoundTrip

SpecJson == Init /\ [][NextJson]_vars

Walked == lastOp \in {"bfs_tree", "rewrite"}

NextWalk ==
    \/ steps < WalkSteps /\ ~ Walked /\ AddSmallGraph
    \/ steps < WalkSteps /\ ~ Walked /\ AddSmallTyping
    \/ steps < WalkSteps /\ ~ Walked /\ BfsTree
    \/ steps < WalkSteps /\ ~ Walked /\ RewriteWalk

SpecWalk == Init /\ [][NextWalk]_vars

NextEq ==
    \/ steps < EqSteps /\ lastOp # "__eq__" /\ AddNodeGraph
    \/ steps < EqSteps /\ lastOp # "__eq__" /\ AddTotalTyping
    \/ steps < EqSteps /\ lastOp # "__eq__" /\ AddRelation
    \/ steps < EqSteps /\ lastOp # "__eq__" /\ Compare

SpecEq == Init /\ [][NextEq]_vars

\* ---- properties -----------------------------------------------------------
\* the step is a call of op whose result is r
Did(op, r) == lastOp' = op /\ err' = r.err /\ Cur' = r.h

\* every node of s has exactly one type in t, a node of t, and every edge of s
\* is typed by an edge of t
ValidTyping(H, s, t) ==
    /\ check_homomorphism(H, s, t)
    /\ \A x \in get_typing(H, s, t) : x[1] \in H.nodes[s] /\ x[2] \in H.nodes[t]

\* C1: a rewrite that raises RewritingError from the checks of the rule, the
\* instance and the typings leaves the hierarchy exactly as it was: graphs,
\* typings, relations and attributes
C1_RewritingErrorNoChange ==
    [][(lastOp' = "rewrite" /\ err' = "RewritingError") => UNCHANGED hier]_vars

\* a rewrite of a graph with nodes and a typing was refused
C1_Witness ==
    /\ lastOp = "rewrite"
    /\ err = "RewritingError"
    /\ typings(Cur) # {}
    /\ \E l \in typing : l[1] # l[3]

\* C2: the typing graph is acyclic: no graph reaches itself by typing edges
\* (add_typing rejects an edge s -> t when t already reaches s, s = t included)
C2_TypingAcyclic == \A g \in graphs : g \notin TypingReach(Cur, g)

\* no two typing paths from a node lead to different nodes of the same graph
Commutes(H) ==
    \A p \in NodesOf(H) :
       \A q1, q2 \in ReachPlus(SkeletonLinks(H), p) : (q1[1] = q2[1]) => (q1 = q2)

C4_TypingsValid ==
    (err = "none") =>
       \A e \in typings(Cur) : (e[1] # e[2]) => ValidTyping(Cur, e[1], e[2])

\* C5: a rejected add_typing leaves the hierarchy exactly as it was before the
\* call, the node-level links that existed between the two graphs included
C5_RejectedAddTypingNoChange ==
    [][(lastOp' = "add_typing" /\ err' # "none") => UNCHANGED hier]_vars

\* C6: add_typing between two graphs that already have the typing edge fails
\* with HierarchyError and the existing mapping is unchanged
C6_ExistingTypingRejected ==
    [][\A s, t \in GraphIds, m \in Mappings :
          (<<s, t>> \in typings(Cur) /\ Did("add_typing", add_typing(Cur, s, t, m, TRUE)))
             => (err' = "HierarchyError"
                 /\ get_typing(Cur', s, t) = get_typing(Cur, s, t))]_vars

\* the relation pairs are nodes of the two graphs
InRange(H, left, right, rel) ==
    \A r \in rel : r[1] \in H.nodes[left] /\ r[2] \in H.nodes[right]

Related(H, left, right) ==
    <<left, right>> \in relations(H) \/ <<right, left>> \in relations(H)

\* C7: add_relation fails with HierarchyError when a graph is missing, when
\* the two graphs are already related in either orientation or when a pair is
\* out of range; otherwise it returns and the unordered pair has exactly one
\* relation edge
C7_AddRelationChecked ==
    [][\A l, r \in GraphIds, rel \in Relations :
          Did("add_relation", add_relation(Cur, l, r, rel))
             => IF \/ l \notin graphs \/ r \notin graphs
                   \/ Related(Cur, l, r) \/ ~ InRange(Cur, l, r, rel)
                THEN err' = "HierarchyError"
                ELSE /\ err' = "none"
                     /\ Cardinality({e \in relations(Cur') :
                                       e \in {<<l, r>>, <<r, l>>}}) = 1]_vars

\* C8: add_graph and add_empty_graph with an id that is already in the
\* hierarchy fail with HierarchyError and leave the existing graph, its
\* attributes and everything else unchanged
C8_DuplicateGraphRejected ==
    [][\A g \in GraphIds, nl \in NodeLists, el \in EdgeLists, at \in AttrVals :
          (g \in graphs /\ \/ Did("add_graph", add_graph(Cur, g, nl, el, at))
                           \/ Did("add_empty_graph", add_empty_graph(Cur, g, at)))
             => (err' = "HierarchyError" /\ UNCHANGED hier)]_vars

\* an add_graph call was rejected because the id was taken by a graph with nodes
C8_Witness ==
    /\ lastOp \in {"add_graph", "add_empty_graph"}
    /\ err = "HierarchyError"
    /\ \E g \in graphs : nodes[g] # {}

Mentions(H, g) ==
    \/ g \in H.graphs
    \/ \E e \in H.skeleton : e[1] = g \/ e[2] = g
    \/ \E l \in H.typing \cup H.relation : l[1] = g \/ l[3] = g
    \/ H.nodes[g] # {}

\* C9: remove_graph(g, reconnect=True) removes g, leaves nothing that mentions
\* it, and for every predecessor p and successor s of g, typings() contains
\* (p, s) with the composed mapping; with reconnect=False no edge is added
C9_RemoveGraphReconnects ==
    [][\A g \in GraphIds :
          /\ (g \in graphs /\ Did("remove_graph_reconnect", remove_graph(Cur, g, TRUE)))
                => /\ ~ Mentions(Cur', g)
                   /\ \A p \in predecessors(Cur, g) \ {g} :
                         \A s \in successors(Cur, g) \ {g, p} :
                            /\ <<p, s>> \in typings(Cur')
                            /\ Compose(get_typing(Cur, p, g), get_typing(Cur, g, s))
                                  \subseteq get_typing(Cur', p, s)
          /\ (g \in graphs /\ Did("remove_graph", remove_graph(Cur, g, FALSE)))
                => /\ ~ Mentions(Cur', g)
                   /\ skeleton' \subseteq skeleton
                   /\ typing' \subseteq typing]_vars

\* the stores agree on everything but the typing s -> t
SameButTyping(H1, H2, s, t) ==
    /\ [H1 EXCEPT !.typing = {}, !.skeleton = {}]
          = [H2 EXCEPT !.typing = {}, !.skeleton = {}]
    /\ H1.typing \ LinksOf(H1.typing, s, t) = H2.typing \ LinksOf(H2.typing, s, t)
    /\ H1.skeleton \ {<<s, t, TypingLabel>>} = H2.skeleton \ {<<s, t, TypingLabel>>}

\* the stores agree on everything but the relation between l and r
SameButRelation(H1, H2, l, r) ==
    LET links(H) == LinksOf(H.relation, l, r) \cup LinksOf(H.relation, r, l)
        skel == {<<l, r, RelationLabel>>, <<r, l, RelationLabel>>}
    IN  /\ [H1 EXCEPT !.relation = {}, !.skeleton = {}]
              = [H2 EXCEPT !.relation = {}, !.skeleton = {}]
        /\ H1.relation \ links(H1) = H2.relation \ links(H2)
        /\ H1.skeleton \ skel = H2.skeleton \ skel

\* C10: remove_typing and remove_relation never raise; afterwards the typing
\* (the relation, in either orientation) is absent, skeleton edge and
\* node-level links, and everything else is unchanged
C10_RemoveTypingRelation ==
    [][\A s, t \in GraphIds :
          /\ (\/ Did("remove_typing", remove_typing(Cur, s, t))
              \/ Did("hierarchy_remove_typing", hierarchy_remove_typing(Cur, s, t)))
                => /\ err' = "none"
                   /\ <<s, t>> \notin typings(Cur')
                   /\ get_typing(Cur', s, t) = {}
                   /\ SameButTyping(Cur, Cur', s, t)
          /\ (\/ Did("remove_relation", remove_relation(Cur, s, t))
              \/ Did("hierarchy_remove_relation", hierarchy_remove_relation(Cur, s, t)))
                => /\ err' = "none"
                   /\ ~ Related(Cur', s, t)
                   /\ get_relation(Cur', s, t) \cup get_relation(Cur', t, s) = {}
                   /\ SameButRelation(Cur, Cur', s, t)]_vars

\* a new id of the dict is a graph of the hierarchy or the new id of two items
Collides(H, graph_dict) ==
    \/ \E i \in DOMAIN graph_dict : graph_dict[i][2] \in H.graphs
    \/ \E i, j \in DOMAIN graph_dict : i # j /\ graph_dict[i][2] = graph_dict[j][2]

\* C11: duplicate_subgraph whose dict has a new id that is an existing graph
\* id or the new id of another item fails with HierarchyError and has no
\* effect: no graph is copied and no typing is added
C11_DuplicateCollisionNoEffect ==
    [][\A d \in GraphDicts, at \in AttachLists :
          (/\ DictKeys(d) \subseteq graphs
           /\ Collides(Cur, d)
           /\ Did("duplicate_subgraph", duplicate_subgraph(Cur, d, at)))
             => (err' = "HierarchyError" /\ UNCHANGED hier)]_vars

\* the copy new of id has the edge to g that id has, in each direction
SameEdgesTo(H, H1, id, new, g) ==
    /\ <<new, g>> \in typings(H1) <=> <<id, g>> \in typings(H)
    /\ <<id, g>> \in typings(H) => get_typing(H1, new, g) = get_typing(H, id, g)
    /\ <<g, new>> \in typings(H1) <=> <<g, id>> \in typings(H)
    /\ <<g, id>> \in typings(H) => get_typing(H1, g, new) = get_typing(H, g, id)
    /\ Related(H1, new, g) <=> Related(H, id, g)

NoEdgesTo(H, new, g) ==
    \A e \in H.skeleton : {e[1], e[2]} # {new, g}

\* C12: copy_graph with a new id that exists fails with HierarchyError and
\* changes nothing; otherwise the copy has the nodes, the edges and the
\* attributes of the original, for every other graph g of attach_graphs it
\* has the typing to g, the typing from g and the relation with g that the
\* original has (on whichever side the original is stored), it has no edge
\* to the graphs that are not attached, and the edges of the original are
\* unchanged
C12_CopyGraph ==
    [][\A id, new \in GraphIds, at \in AttachLists :
          (id \in graphs /\ Did("copy_graph", copy_graph(Cur, id, new, at)))
             => IF new \in graphs
                THEN err' = "HierarchyError" /\ UNCHANGED hier
                ELSE /\ err' = "none"
                     /\ nodes'[new] = nodes[id]
                     /\ edges'[new] = edges[id]
                     /\ gattrs'[new] = gattrs[id]
                     /\ \A g \in graphs \ {id} :
                           IF g \in Range(at)
                           THEN SameEdgesTo(Cur, Cur', id, new, g)
                           ELSE NoEdgesTo(Cur', new, g)
                     /\ {e \in skeleton' : new \notin {e[1], e[2]}} = skeleton
                     /\ {l \in typing' : new \notin {l[1], l[3]}} = typing
                     /\ {l \in relation' : new \notin {l[1], l[3]}} = relation
             ]_vars

\* the compositions of the typings along the paths from a to g
RECURSIVE PathMaps(_, _, _)
PathMaps(H, a, g) ==
    (IF <<a, g>> \in typings(H) THEN {get_typing(H, a, g)} ELSE {})
    \cup UNION {{Compose(get_typing(H, a, m), pm) : pm \in PathMaps(H, m, g)} :
                  m \in successors(H, a) \ {g}}

Acyclic(H) == \A g \in H.graphs : g \notin TypingReach(H, g)

AllValid(H) == \A e \in typings(H) : ValidTyping(H, e[1], e[2])

StageOrder == <<"check", "restrictive", "backward", "expansive", "forward">>

IsPrefix(d, order) ==
    Len(d) <= Len(order) /\ \A i \in DOMAIN d : d[i] = order[i]

\* C14: a call of rewrite goes through the checks, the restrictive rewrite,
\* the backward propagation, the expansive rewrite and the forward
\* propagation in this order, each once and one at a time; a call that
\* returns went through all of them and returns the map from the rhs that
\* the expansive rewrite produced; after a stage that raised no stage starts
C14_StagesInOrder ==
    [][/\ IsPrefix(done', StageOrder)
       /\ pc # "idle"
             => /\ done' = Append(done, StageOrder[Len(done) + 1])
                /\ pc' \in {"idle", StageOrder[Len(done) + 1]}
       /\ pc' # "idle" => (UNCHANGED <<lastOp, err, ret>> /\ pc' = done'[Len(done')])
       /\ pc' = "expansive"
             => call'.rhs_g_prime =
                   expansive_rewrite(Cur, call.origin, call.rule,
                                     call.p_g_m).rhs_g_prime
       /\ (lastOp' = "rewrite" /\ pc' = "idle")
             => IF err' = "none"
                THEN done' = StageOrder /\ ret' = call.rhs_g_prime
                ELSE ret' = <<>>]_vars

\* a rewrite that adds a node went through the five stages and returned
C14_Witness ==
    /\ lastOp = "rewrite"
    /\ err = "none"
    /\ pc = "idle"
    /\ done = StageOrder
    /\ call.origin \in graphs
    /\ \E x \in ret : x[2] \in Range(FreshIds)

\* two distinct keys of f have the same value
SharesImage(f) == \E x, y \in DOMAIN f : x # y /\ f[x] = f[y]

\* C15: a map in which two distinct nodes share an image is not monic, and
\* rewrite and get_rule_propagations called with an instance in which two
\* nodes of the lhs share an image fail with RewritingError
C15_SharedImageRejected ==
    [][\A g \in GraphIds, a \in RewriteArgs :
          (/\ SharesImage(a.instance)
           /\ \/ Did("rewrite", rewrite(Cur, g, a.rule, a.instance, a.p_typing,
                                        a.rhs_typing, a.strict))
              \/ Did("get_rule_propagations",
                     get_rule_propagations(Cur, g, a.rule, a.instance,
                                           a.p_typing, a.rhs_typing)))
             => (~ is_monic(a.instance) /\ err' = "RewritingError")]_vars

\* a rewrite of a graph with two nodes was refused for an instance that is a
\* homomorphism sending the two nodes of the lhs to one node
C15_Witness ==
    /\ lastOp = "rewrite"
    /\ err = "RewritingError"
    /\ \E g \in graphs, a \in RewriteArgs :
          /\ SharesImage(a.instance)
          /\ InstanceValid(Cur, g, a.rule, a.instance)
          /\ rewrite(Cur, g, a.rule, a.instance, a.p_typing, a.rhs_typing,
                     a.strict).err = "RewritingError"

\* h is defined on every node of A, the image of every edge of A is an edge
\* of B, and the attributes of the nodes and of the edges of A are among
\* those of their images
IsHomomorphism(A, B, h) ==
    /\ DOMAIN h = A.nodes
    /\ \A n \in A.nodes : h[n] \in B.nodes
    /\ \A e \in A.edges : <<h[e[1]], h[e[2]]>> \in B.edges
    /\ \A n \in A.nodes : A.nattrs[n] \subseteq B.nattrs[h[n]]
    /\ \A e \in A.edges : A.eattrs[e] \subseteq B.eattrs[<<h[e[1]], h[e[2]]>>]

TypesIn(H, A, k, g) ==
    {q[2] : q \in {x \in ReachPlus(SkeletonLinks(H), <<A, k>>) : x[1] = g}}

\* p_typing gives a node of an ancestor an interface node whose lhs node is
\* matched to another node than the one that types it
Retypes(H, g, rule, instance, p_typing) ==
    \E i \in PTypingItems(p_typing) :
       TypesIn(H, i[1], i[2], g) # {instance[rule.p_lhs[i[3]]]}

\* C17: when p_typing has entries for ancestors of the rewritten graph,
\* direct or not, rewrite fails with RewritingError if an entry gives a node
\* an interface node that the existing typing of the ancestor in the graph
\* does not send to the matched node, and the check of the entries does not
\* reject otherwise
C17_PTypingRetype ==
    [][\A g \in graphs, a \in RewriteArgs :
          (/\ Acyclic(Cur)
           /\ AllValid(Cur) /\ Commutes(Cur)
           /\ DOMAIN a.p_typing # {}
           /\ \A A \in DOMAIN a.p_typing : g \in TypingReach(Cur, A)
           /\ InstanceErr(Cur, g, a.rule, a.instance) = "none"
           /\ Did("rewrite", rewrite(Cur, g, a.rule, a.instance, a.p_typing,
                                     a.rhs_typing, a.strict)))
             => IF Retypes(Cur, g, a.rule, a.instance, a.p_typing)
                THEN err' = "RewritingError"
                ELSE PRetypeErr(Cur, g, a.rule, a.instance, a.p_typing) = "none"
      ]_vars

\* an entry of p_typing is canonical when every node it constrains is given
\* all the interface nodes of one lhs node
Canonical(rule, typ) ==
    \A k \in DOMAIN typ :
       \E l \in rule.lhs : typ[k] = {q \in rule.p : rule.p_lhs[q] = l}

\* the entries of p_typing that have a predecessor without an entry
Uncovered(H, p_typing) ==
    {A \in DOMAIN p_typing :
        \E pred \in predecessors(H, A) : pred \notin DOMAIN p_typing}

\* C18: when an ancestor has an entry in p_typing and one of its predecessors
\* has none, the composability check accepts the entry if it is canonical
\* and rewrite fails with RewritingError if it is not
C18_Composability ==
    [][\A g \in graphs, a \in RewriteArgs :
          (/\ Acyclic(Cur)
           /\ AllValid(Cur) /\ Commutes(Cur)
           /\ Uncovered(Cur, a.p_typing) # {}
           /\ \A A \in DOMAIN a.p_typing : g \in TypingReach(Cur, A)
           /\ InstanceErr(Cur, g, a.rule, a.instance) = "none"
           /\ PRetypeErr(Cur, g, a.rule, a.instance, a.p_typing) = "none"
           /\ Did("rewrite", rewrite(Cur, g, a.rule, a.instance, a.p_typing,
                                     a.rhs_typing, a.strict)))
             => IF \A A \in Uncovered(Cur, a.p_typing) :
                      Canonical(a.rule, a.p_typing[A])
                THEN PComposeErr(Cur, a.p_typing) = "none"
                ELSE err' = "RewritingError"
      ]_vars

\* the nodes of d that rhs_typing gives to the rhs node n: those of the entry
\* of d and the types in d of those of the entries of the ancestors of d
Targets(H, rhs_typing, d, n) ==
    (IF d \in DOMAIN rhs_typing /\ n \in DOMAIN rhs_typing[d]
     THEN rhs_typing[d][n] ELSE {})
    \cup UNION {TypesIn(H, A, v, d) :
                   <<A, v>> \in {x \in (DOMAIN rhs_typing) \X NodeIds :
                                    /\ d \in TypingReach(H, x[1])
                                    /\ n \in DOMAIN rhs_typing[x[1]]
                                    /\ x[2] \in rhs_typing[x[1]][n]}}

\* every descendant of g gets exactly one target for each added node
TypesAdded(H, g, rule, rhs_typing) ==
    \A d \in TypingReach(H, g), n \in added_nodes(rule) :
       Cardinality(Targets(H, rhs_typing, d, n)) = 1

\* the case of C19: a strict rewrite of g with a rule that adds a node and an
\* rhs_typing whose entries are for descendants of g
StrictAdding(g, a) ==
    /\ a.strict
    /\ added_nodes(a.rule) # {}
    /\ Acyclic(Cur) /\ AllValid(Cur) /\ Commutes(Cur)
    /\ DOMAIN a.rhs_typing \subseteq TypingReach(Cur, g)
    /\ InstanceErr(Cur, g, a.rule, a.instance) = "none"

C20_IdentityRewrite ==
    [][(lastOp' = "rewrite" /\ AllValid(Cur) /\ Acyclic(Cur))
          => (err' = "none" /\ Cur' = Cur)]_vars

\* the hierarchy of scenario S1: T is g1 with the nodes a, b, G is g2 with the
\* nodes a, b standing for x, y, and the one typing G -> T sends both to a
S1Hierarchy ==
    /\ graphs = {"g1", "g2"}
    /\ nodes["g1"] = {"a", "b"} /\ nodes["g2"] = {"a", "b"}
    /\ skeleton = {<<"g2", "g1", TypingLabel>>}
    /\ typing = {<<"g2", "a", "g1", "a">>, <<"g2", "b", "g1", "a">>}

\* C21: in the hierarchy of S1, rewriting T with the rule that clones a into
\* a1, a2 and p_typing[G] = {x: {a1}, y: {a2}} succeeds, T has the nodes
\* a1, a2, b, G keeps its two nodes and the typing G -> T sends x to a1 and
\* y to a2
C21_ControlledClone ==
    [][(/\ S1Hierarchy
        /\ lastOp' = "rewrite"
        /\ call' = [origin |-> "g1",
                    args |-> Args(CloneRule, [x \in {"a"} |-> "a"],
                                  S1Typing("g2"), NoTyping, FALSE)])
          => /\ err' = "none"
             /\ nodes'["g1"] = {"a1", "a2", "b"}
             /\ nodes'["g2"] = {"a", "b"}
             /\ skeleton' = skeleton
             /\ typing' = {<<"g2", "a", "g1", "a1">>, <<"g2", "b", "g1", "a2">>}
      ]_vars

\* the hierarchy of scenario S3: T is g1 with the nodes a, b, M is g2 with the
\* nodes a, b standing for u, v, G is g3 with the node a standing for x
S3Hierarchy ==
    /\ graphs = {"g1", "g2", "g3"}
    /\ nodes["g1"] = {"a", "b"} /\ nodes["g2"] = {"a", "b"} /\ nodes["g3"] = {"a"}
    /\ skeleton = {<<"g2", "g1", TypingLabel>>, <<"g3", "g2", TypingLabel>>}
    /\ typing = {<<"g2", "a", "g1", "a">>, <<"g2", "b", "g1", "b">>,
                 <<"g3", "a", "g2", "a">>}

S3Result ==
    /\ err = "none"
    /\ nodes["g1"] = {"b"} /\ nodes["g2"] = {"b"} /\ nodes["g3"] = {}
    /\ typing = {<<"g2", "b", "g1", "b">>}

\* C22: in the hierarchy of S3, deleting a in T leaves T = {b}, M = {v}, G
\* empty, M -> T = {v -> b}, G -> M empty; and a rewrite never adds or removes
\* a typing edge between graphs
C22_DeletionPropagates ==
    [][lastOp' = "rewrite"
          => /\ typings(Cur') = typings(Cur)
             /\ (S3Hierarchy /\ call'.origin = "g1" /\ call'.args.instance["a"] = "a")
                   => S3Result'
      ]_vars

\* the node pairs of the relations, whichever way they are stored
Unordered(R) == R \cup {<<l[3], l[4], l[1], l[2]>> : l \in R}

UnorderedPairs(P) == P \cup {<<x[2], x[1]>> : x \in P}

\* C23: reading back what to_json wrote of a valid hierarchy gives the same
\* graphs with the same nodes, edges and attributes, the same typings with
\* the same mappings and the same relations with the same node pairs, and
\* to_json writes each relation once per unordered pair of graphs
C23_JsonRoundTrip ==
    (lastOp = "from_json" /\ Acyclic(Cur) /\ AllValid(Cur) /\ Commutes(Cur))
       => /\ err = "none"
          /\ ret.graphs = graphs /\ ret.gattrs = gattrs
          /\ ret.nodes = nodes /\ ret.edges = edges
          /\ typings(ret) = typings(Cur) /\ ret.typing = typing
          /\ UnorderedPairs(relations(ret)) = UnorderedPairs(relations(Cur))
          /\ Unordered(ret.relation) = Unordered(relation)
          /\ \A d1, d2 \in call.relations :
                (d1.from = d2.to /\ d1.to = d2.from) => d1 = d2

\* C24: get_rule_propagations leaves the hierarchy as it is and, for a call
\* that passes the checks, returns a rule and an instance for the origin, the
\* rule given, for each of its ancestors and for each of its descendants
C24_RulePropagations ==
    [][\A g \in graphs, a \in RewriteArgs :
          LET r == get_rule_propagations(Cur, g, a.rule, a.instance, a.p_typing,
                                         a.rhs_typing)
              around == {g} \cup {x \in graphs : g \in TypingReach(Cur, x)}
                            \cup TypingReach(Cur, g)
          IN  (/\ ~ a.strict
               /\ Did("get_rule_propagations", r)
               /\ ret' = (IF "ret" \in DOMAIN r THEN r.ret ELSE <<>>))
                 => /\ Cur' = Cur
                    /\ (/\ Acyclic(Cur) /\ AllValid(Cur) /\ Commutes(Cur)
                        /\ check_rule_instance_typing(Cur, g, a.rule, a.instance,
                               a.p_typing, a.rhs_typing, FALSE) = "none")
                          => /\ err' = "none"
                             /\ DOMAIN ret'.rules = around
                             /\ ret'.rules[g] = a.rule
                             /\ DOMAIN ret'.instances = around
      ]_vars

\* the graphs with a typing path of one or more edges to g
ProperAncestors(H, g) == {x \in H.graphs : g \in TypingReach(H, x)}

\* the number of the calls of seq made on the graph x
TimesOn(seq, x) == Cardinality({i \in DOMAIN seq : seq[i][1] = x})

\* C25: the local updates of the backward propagation of a rewrite are given
\* to every proper ancestor of the origin once (each update that the rule asks
\* for, in the order of the code) and to no other graph, never to the origin
C25_BackwardOnlyAncestors ==
    [][(lastOp' = "rewrite" /\ "local" \in DOMAIN call'
        /\ call'.stage # "check")
          => LET local == call'.local
                 n == Len(LocalSteps(call'.args.rule))
             IN  /\ \A i \in DOMAIN local : local[i][1] # call'.origin
                 /\ \A x \in graphs :
                       TimesOn(local, x) =
                          IF x \in ProperAncestors(Cur, call'.origin)
                          THEN n ELSE 0
      ]_vars

\* the number of edges of a shortest path from a graph of frontier to x
RECURSIVE DistFrom(_, _, _, _, _)
DistFrom(H, reverse, frontier, seen, x) ==
    IF x \in frontier \/ frontier = {} THEN 0
    ELSE 1 + DistFrom(H, reverse,
                      UNION {Range(Nb(H, g, reverse)) : g \in frontier}
                         \ (seen \cup frontier),
                      seen \cup frontier, x)

\* C28: bfs_tree(src, reverse) starts with src, lists the graphs reached from
\* src along the typing edges (reversed when reverse is true) once each and no
\* other graph, in non-decreasing distance from src
C28_BfsTree ==
    [][lastOp' = "bfs_tree"
          => LET r == ret'
                 src == call'.graph
                 reverse == call'.reverse
                 reached == IF reverse THEN ProperAncestors(Cur, src)
                            ELSE TypingReach(Cur, src)
                 d(x) == DistFrom(Cur, reverse, {src}, {}, x)
             IN  /\ hier' = hier
                 /\ r[1] = src
                 /\ Range(r) = {src} \cup reached
                 /\ \A i, j \in DOMAIN r : r[i] = r[j] => i = j
                 /\ \A i, j \in DOMAIN r : i < j => d(r[i]) <= d(r[j])
      ]_vars

\* C26: the forward propagation of a rewrite gives its local updates to the
\* descendants of the origin in the order of their distance from the origin,
\* and to each of them once
C26_ForwardBfsOrder ==
    [][(lastOp' = "rewrite" /\ "forward" \in DOMAIN call'
        /\ call'.stage = "forward")
          => LET f == call'.forward
                 n == Len(ForwardLocalSteps(call'.args.rule))
                 d(x) == DistFrom(Cur, FALSE, {call'.origin}, {}, x)
             IN  /\ \A i, j \in DOMAIN f : i < j => d(f[i][1]) <= d(f[j][1])
                 /\ \A x \in graphs :
                       TimesOn(f, x) =
                          IF x \in TypingReach(Cur, call'.origin)
                          THEN n ELSE 0
      ]_vars

\* the typing edges that the repair of the two propagations is for: those
\* into a proper ancestor of the origin and, when the forward propagation is
\* reached, those out of a descendant
Repaired(H, origin_id, stage) ==
    {e \in typings(H) :
        \/ e[2] \in ProperAncestors(H, origin_id)
        \/ stage = "forward" /\ e[1] \in TypingReach(H, origin_id)}

\* C27: the typing repair of a propagation, made after all the local
\* updates, removes each typing edge into a processed ancestor (out of a
\* processed descendant) and adds it again: after the rewrite the edge is in
\* the hierarchy with a map of all the nodes of its source
C27_RepairAtEnd ==
    [][(lastOp' = "rewrite" /\ "stage" \in DOMAIN call'
        /\ call'.stage # "check" /\ AllValid(Cur))
          => \A e \in Repaired(Cur, call'.origin, call'.stage) :
                /\ e \in typings(Cur')
                /\ ValidTyping(Cur', e[1], e[2])
      ]_vars

\* the images in the graph d of the nodes ns of the graph g along the typings
ImagesIn(H, g, ns, d) ==
    {y \in H.nodes[d] : \E x \in ns : <<d, y>> \in ReachPlus(H.typing, <<g, x>>)}

\* C29: the checks of a rewrite complete rhs_typing: for each graph g of
\* rhs_typing and each descendant d of g that is not in it, the entry of d has
\* for every rhs node n typed in g the images in d of rhs_typing[g][n]; when d
\* is in rhs_typing and types n, an image that rhs_typing[d][n] does not hold
\* makes the rewrite raise RewritingError
C29_RhsAutocomplete ==
    [][(lastOp' = "rewrite" /\ "completed" \in DOMAIN call' /\ AllValid(Cur)
        /\ DOMAIN call'.args.rhs_typing \subseteq TypingReach(Cur, call'.origin)
        /\ \A k \in DOMAIN call'.args.rhs_typing :
              \A n \in DOMAIN call'.args.rhs_typing[k] :
                 TypingReach(Cur, k) # {}
                    => call'.args.rhs_typing[k][n] \subseteq nodes[k])
          => LET t == call'.args.rhs_typing
                 full == call'.completed
             IN  \A g \in DOMAIN t : \A d \in TypingReach(Cur, g) :
                    \A n \in DOMAIN t[g] :
                       /\ (d \notin DOMAIN t /\ call'.stage # "check")
                             => /\ d \in DOMAIN full
                                /\ n \in DOMAIN full[d]
                                /\ full[d][n] = ImagesIn(Cur, g, t[g][n], d)
                       /\ (/\ d \in DOMAIN t
                           /\ n \in DOMAIN t[d]
                           /\ ~ (ImagesIn(Cur, g, t[g][n], d) \subseteq t[d][n]))
                             => err' = "RewritingError"
      ]_vars

\* C30: the equality of hierarchies is symmetric, and two hierarchies are
\* equal only when they have the same graphs with the same attributes, the
\* same typing edges and the same relations
C30_EqSymmetricExact ==
    [][lastOp' = "__eq__"
          => LET other == call'.other
             IN  /\ ret'[1] = ret'[2]
                 /\ ret'[1] => /\ graphs = other.graphs
                               /\ \A g \in graphs : gattrs[g] = other.gattrs[g]
                               /\ typings(Cur) = typings(other)
                               /\ UnorderedPairs(relations(Cur)) =
                                     UnorderedPairs(relations(other))
      ]_vars

====
